---------------------------- MODULE Spec2Model ----------------------------
(***************************************************************************)
(* A model of the offload program (hanpeter/offload): PhotoOffloader and   *)
(* VideoOffloader read the media files of a source directory, extract      *)
(* their metadata, bucket them by year-month and copy or archive every     *)
(* bucket into destination/year=<Y>/month=<MM> or destination/unknown.     *)
(*                                                                         *)
(* Strings the program computes with (file names, bucket keys, date        *)
(* strings, directory names) are sequences of one-character strings, so    *)
(* that formatting, splitting and parsing are modelled by what they do.    *)
(* Tag names and exception class names are atomic strings.                 *)
(* An optional value is <<>> (None) or <<v>> (a present value v).          *)
(***************************************************************************)
EXTENDS Integers, Sequences, FiniteSets, TLC

(***************************************************************************)
(* Bounds of the model.                                                    *)
(***************************************************************************)
\* the largest number of media files of the run's kind in the source directory
MaxFiles == 2
\* the largest number of other entries (other extensions, subdirectories)
MaxNoise == 1

(***************************************************************************)
(* Optional values.                                                        *)
(***************************************************************************)
None == <<>>

Some(v) == <<v>>

IsNone(o) == o = <<>>

IsSome(o) == o /= <<>>

Val(o) == o[1]

(***************************************************************************)
(* Characters and strings.                                                 *)
(***************************************************************************)
Digits == <<"0", "1", "2", "3", "4", "5", "6", "7", "8", "9">>

IsDigit(c) == \E i \in 1..10 : Digits[i] = c

DigitVal(c) == (CHOOSE i \in 1..10 : Digits[i] = c) - 1

Upper == <<"A", "B", "C", "D", "E", "F", "G", "H", "I", "J", "K", "L", "M",
           "N", "O", "P", "Q", "R", "S", "T", "U", "V", "W", "X", "Y", "Z">>

Lower == <<"a", "b", "c", "d", "e", "f", "g", "h", "i", "j", "k", "l", "m",
           "n", "o", "p", "q", "r", "s", "t", "u", "v", "w", "x", "y", "z">>

\* str.lower() on one character
LowerChar(c) ==
    IF \E i \in 1..26 : Upper[i] = c
    THEN Lower[CHOOSE i \in 1..26 : Upper[i] = c]
    ELSE c

\* str.lower()
LowerStr(s) == [i \in 1..Len(s) |-> LowerChar(s[i])]

\* str(n) for an integer n >= 0: the decimal digits, no padding
RECURSIVE IntToStr(_)
IntToStr(n) ==
    IF n < 10 THEN <<Digits[n + 1]>>
    ELSE IntToStr(n \div 10) \o <<Digits[(n % 10) + 1]>>

\* format(n, "02d") for n >= 0: at least two digits, zero-padded on the left
Pad2(n) == IF n < 10 THEN <<"0">> \o IntToStr(n) ELSE IntToStr(n)

\* the value of a non-empty string of digits
RECURSIVE DigitsToInt(_)
DigitsToInt(s) ==
    IF Len(s) = 0 THEN 0
    ELSE 10 * DigitsToInt(SubSeq(s, 1, Len(s) - 1)) + DigitVal(s[Len(s)])

\* int(s) succeeds: s is a run of one or more decimal digits.  (int() also
\* accepts surrounding whitespace, a sign and single underscores between
\* digits; no string of the model carries any of them.)
IsIntLiteral(s) == Len(s) > 0 /\ \A i \in 1..Len(s) : IsDigit(s[i])

\* s.split(sep) for a one-character separator: the list of parts
RECURSIVE Split(_, _)
Split(s, sep) ==
    IF \A i \in 1..Len(s) : s[i] /= sep THEN <<s>>
    ELSE LET i == CHOOSE k \in 1..Len(s) :
                      s[k] = sep /\ \A j \in 1..(k - 1) : s[j] /= sep
         IN  <<SubSeq(s, 1, i - 1)>> \o Split(SubSeq(s, i + 1, Len(s)), sep)

(***************************************************************************)
(* Program constants (offload/constants.py and the offloader classes).     *)
(***************************************************************************)
UNKNOWN_BUCKET_KEY == <<"U", "n", "k", "n", "o", "w", "n">>

UNKNOWN_DIRECTORY == <<"u", "n", "k", "n", "o", "w", "n">>

YEAR_MONTH_SEPARATOR == "-"

YEAR_PREFIX == <<"y", "e", "a", "r", "=">>

MONTH_PREFIX == <<"m", "o", "n", "t", "h", "=">>

PHOTO_EXTENSIONS ==
    { <<".", "j", "p", "g">>, <<".", "j", "p", "e", "g">>, <<".", "p", "n", "g">>,
      <<".", "h", "e", "i", "c">>, <<".", "h", "e", "i", "f">> }

VIDEO_EXTENSIONS == { <<".", "m", "o", "v">>, <<".", "m", "p", "4">> }

PHOTO_ARCHIVE_FILENAME == <<"p", "h", "o", "t", "o", "s", ".", "z", "i", "p">>

VIDEO_ARCHIVE_FILENAME == <<"v", "i", "d", "e", "o", "s", ".", "z", "i", "p">>

\* the exception classes the except clauses of the program name
PHOTO_DATE_CAUGHT == {"ValueError", "TypeError"}

PHOTO_LOCATION_CAUGHT ==
    {"KeyError", "TypeError", "ValueError", "IndexError", "AttributeError"}

\* the classes the model's collaborators raise; all derive from Exception
ExceptionClasses ==
    {"OSError", "ValueError", "TypeError", "KeyError", "IndexError",
     "AttributeError", "SyntaxError"}

\* 'except Exception' catches every class deriving from Exception
CaughtByExceptException(cls) == cls \in ExceptionClasses

(***************************************************************************)
(* pathlib: the suffix of a file name.                                     *)
(***************************************************************************)
\* PurePath.suffix: the part of the name from its last dot, empty when the
\* name has no dot, starts with its only dot, or ends with a dot
Suffix(name) ==
    IF \A i \in 1..Len(name) : name[i] /= "." THEN <<>>
    ELSE LET i == CHOOSE k \in 1..Len(name) :
                      name[k] = "." /\ \A j \in (k + 1)..Len(name) : name[j] /= "."
         IN  IF 1 < i /\ i < Len(name) THEN SubSeq(name, i, Len(name)) ELSE <<>>

(***************************************************************************)
(* datetime: calendar validity and strptime.                               *)
(***************************************************************************)
IsLeapYear(y) == (y % 4 = 0 /\ y % 100 /= 0) \/ y % 400 = 0

DaysInMonth(y, m) ==
    IF m = 2 THEN (IF IsLeapYear(y) THEN 29 ELSE 28)
    ELSE IF m \in {4, 6, 9, 11} THEN 30 ELSE 31

\* datetime(...) accepts the fields: MINYEAR <= year, the day exists in the
\* month, second <= 59 (month, hour and minute are bounded by the directives)
ValidDateTime(d) ==
    /\ d.year >= 1
    /\ d.month \in 1..12
    /\ d.day \in 1..DaysInMonth(d.year, d.month)
    /\ d.hour \in 0..23
    /\ d.minute \in 0..59
    /\ d.second \in 0..59

\* the fields strptime starts from when the format lacks a directive
StrptimeDefaults ==
    [year |-> 1900, month |-> 1, day |-> 1, hour |-> 0, minute |-> 0,
     second |-> 0, microsecond |-> 0]

CharAt(s, i) == IF i \in 1..Len(s) THEN s[i] ELSE ""

IsDigitAt(s, i) == i \in 1..Len(s) /\ IsDigit(s[i])

InRange(c, lo, hi) == IsDigit(c) /\ DigitVal(c) >= lo /\ DigitVal(c) <= hi

\* the number of leading characters of s from position i that satisfy the
\* run of whitespace (\s+) of a format's blank
RECURSIVE SpaceRun(_, _)
SpaceRun(s, i) == IF CharAt(s, i) = " " THEN 1 + SpaceRun(s, i + 1) ELSE 0

\* the number of digits from position i, at most max
RECURSIVE DigitRun(_, _, _)
DigitRun(s, i, max) ==
    IF max > 0 /\ IsDigitAt(s, i) THEN 1 + DigitRun(s, i + 1, max - 1) ELSE 0

\* The length of the text that directive (or literal) tok matches at position
\* i of s, 0 when it does not match: the alternatives of _strptime's regular
\* expression for the directive, tried in their order.  Every format of the
\* program separates its directives by literals, so the first alternative
\* that matches is the one the whole match uses.
MatchLen(tok, s, i) ==
    LET a == CharAt(s, i)
        b == CharAt(s, i + 1)
    IN  CASE tok = "%Y" -> IF DigitRun(s, i, 4) = 4 THEN 4 ELSE 0
          [] tok = "%m" -> IF (a = "1" /\ InRange(b, 0, 2)) \/ (a = "0" /\ InRange(b, 1, 9))
                           THEN 2
                           ELSE IF InRange(a, 1, 9) THEN 1 ELSE 0
          [] tok = "%d" -> IF \/ (a = "3" /\ InRange(b, 0, 1))
                              \/ (InRange(a, 1, 2) /\ IsDigit(b))
                              \/ (a = "0" /\ InRange(b, 1, 9))
                           THEN 2
                           ELSE IF InRange(a, 1, 9) THEN 1
                           ELSE IF a = " " /\ InRange(b, 1, 9) THEN 2 ELSE 0
          [] tok = "%H" -> IF (a = "2" /\ InRange(b, 0, 3)) \/ (InRange(a, 0, 1) /\ IsDigit(b))
                           THEN 2
                           ELSE IF IsDigit(a) THEN 1 ELSE 0
          [] tok = "%M" -> IF InRange(a, 0, 5) /\ IsDigit(b) THEN 2
                           ELSE IF IsDigit(a) THEN 1 ELSE 0
          [] tok = "%S" -> IF (a = "6" /\ InRange(b, 0, 1)) \/ (InRange(a, 0, 5) /\ IsDigit(b))
                           THEN 2
                           ELSE IF IsDigit(a) THEN 1 ELSE 0
          [] tok = "%f" -> DigitRun(s, i, 6)
          [] tok = " "  -> SpaceRun(s, i)
          [] OTHER      -> IF a = tok THEN 1 ELSE 0

\* the digits of a matched directive as a number (the day may carry a
\* leading blank; the fraction is padded on the right to six digits)
RECURSIVE PadRight6(_)
PadRight6(t) == IF Len(t) >= 6 THEN t ELSE PadRight6(t \o <<"0">>)

FieldValue(tok, t) ==
    IF tok = "%f" THEN DigitsToInt(PadRight6(t))
    ELSE IF Len(t) > 0 /\ t[1] = " " THEN DigitsToInt(Tail(t))
    ELSE DigitsToInt(t)

StoreField(acc, tok, v) ==
    CASE tok = "%Y" -> [acc EXCEPT !.year = v]
      [] tok = "%m" -> [acc EXCEPT !.month = v]
      [] tok = "%d" -> [acc EXCEPT !.day = v]
      [] tok = "%H" -> [acc EXCEPT !.hour = v]
      [] tok = "%M" -> [acc EXCEPT !.minute = v]
      [] tok = "%S" -> [acc EXCEPT !.second = v]
      [] tok = "%f" -> [acc EXCEPT !.microsecond = v]
      [] OTHER      -> acc

IsDirective(tok) == tok \in {"%Y", "%m", "%d", "%H", "%M", "%S", "%f"}

\* match the tokens fmt[ti..] against s from position i
RECURSIVE StrptimeFrom(_, _, _, _, _)
StrptimeFrom(s, i, fmt, ti, acc) ==
    IF ti > Len(fmt)
    THEN \* "unconverted data remains" unless the whole string was matched
         IF i = Len(s) + 1 /\ ValidDateTime(acc) THEN Some(acc) ELSE None
    ELSE LET n == MatchLen(fmt[ti], s, i)
         IN  IF n = 0 THEN None
             ELSE StrptimeFrom(s, i + n, fmt, ti + 1,
                               IF IsDirective(fmt[ti])
                               THEN StoreField(acc, fmt[ti], FieldValue(fmt[ti], SubSeq(s, i, i + n - 1)))
                               ELSE acc)

\* datetime.strptime(s, fmt): the timestamp, or None where it raises ValueError
Strptime(s, fmt) == StrptimeFrom(s, 1, fmt, 1, StrptimeDefaults)

\* '%Y:%m:%d %H:%M:%S'
EXIF_DATE_FORMAT == <<"%Y", ":", "%m", ":", "%d", " ", "%H", ":", "%M", ":", "%S">>

(***************************************************************************)
(* Tag values.  A tag dictionary maps every tag name of its kind to a      *)
(* value; the value Absent stands for a key the dictionary does not hold.  *)
(* t is the value's type: "str" (s holds its characters), "int" (n holds   *)
(* it), "dms" (d holds a degrees/minutes/seconds triple), "short" (d       *)
(* holds a tuple of fewer than three numbers), "badstr" (an object whose   *)
(* string conversion raises the class e).                                  *)
(***************************************************************************)
Absent == [t |-> "absent", s |-> <<>>, n |-> 0, d |-> <<>>, e |-> ""]

StrV(chars) == [t |-> "str", s |-> chars, n |-> 0, d |-> <<>>, e |-> ""]

IntV(k) == [t |-> "int", s |-> <<>>, n |-> k, d |-> <<>>, e |-> ""]

DmsV(triple) ==
    [t |-> IF Len(triple) >= 3 THEN "dms" ELSE "short", s |-> <<>>, n |-> 0,
     d |-> triple, e |-> ""]

BadStrV(cls) == [t |-> "badstr", s |-> <<>>, n |-> 0, d |-> <<>>, e |-> cls]

\* key in mapping
Has(tags, key) == tags[key].t /= "absent"

\* the result of a call that may raise: exc is the class raised ("" when the
\* call returns) and v the value returned
Ret(v) == [exc |-> "", v |-> v]

Raise(cls) == [exc |-> cls, v |-> None]

\* str(value)
StrOf(val) ==
    CASE val.t = "str"    -> Ret(val.s)
      [] val.t = "int"    -> Ret(IntToStr(val.n))
      [] val.t = "badstr" -> Raise(val.e)
      [] OTHER            -> Ret(<<>>)

(***************************************************************************)
(* The DMS coordinate converter.  Numbers are fixed-point: the three       *)
(* numbers of a DMS triple are in hundredths, and a coordinate in decimal  *)
(* degrees is in units of 1/360000 degree (a hundredth of an arc second),  *)
(* so that degrees + minutes/60 + seconds/3600 is exact.                   *)
(***************************************************************************)
NEGATIVE_DIRECTIONS == { <<"S">>, <<"W">> }

DEFAULT_LATITUDE_REF == StrV(<<"N">>)

DEFAULT_LONGITUDE_REF == StrV(<<"E">>)

MINUTES_PER_DEGREE == 60

SECONDS_PER_DEGREE == 3600

\* a converter that never negates
DmsToDecimalUnsigned(dms, ref) ==
    dms[1] * SECONDS_PER_DEGREE
    + dms[2] * (SECONDS_PER_DEGREE \div MINUTES_PER_DEGREE)
    + dms[3]

\* a converter that negates for the reference S only
DmsToDecimalSouthOnly(dms, ref) ==
    LET decimal == dms[1] * SECONDS_PER_DEGREE
                   + dms[2] * (SECONDS_PER_DEGREE \div MINUTES_PER_DEGREE)
                   + dms[3]
    IN  IF ref.t = "str" /\ ref.s = <<"S">> THEN 0 - decimal ELSE decimal

\* _dms_to_decimal(dms, ref) where dms holds three numbers
DmsToDecimal(dms, ref) ==
    LET decimal == dms[1] * SECONDS_PER_DEGREE
                   + dms[2] * (SECONDS_PER_DEGREE \div MINUTES_PER_DEGREE)
                   + dms[3]
    IN  IF ref.t = "str" /\ ref.s \in NEGATIVE_DIRECTIONS THEN 0 - decimal ELSE decimal

\* VideoOffloader._dms_to_decimal(dms, ref): the same sum with the divisors
\* written out
VideoDmsToDecimal(dms, ref) ==
    LET decimal == dms[1] * 3600 + dms[2] * (3600 \div 60) + dms[3]
    IN  IF ref.t = "str" /\ ref.s \in NEGATIVE_DIRECTIONS THEN 0 - decimal ELSE decimal

\* Application._dms_to_decimal(dms, ref) of the legacy module: the divisors
\* and the two directions written out
ApplicationDmsToDecimal(dms, ref) ==
    LET decimal == dms[1] * 3600 + dms[2] * (3600 \div 60) + dms[3]
    IN  IF ref.t = "str" /\ ref.s \in { <<"S">>, <<"W">> } THEN 0 - decimal ELSE decimal

\* float(dms[0]), float(dms[1]), float(dms[2]) on a string, one after the
\* other from place i: a place the string lacks raises IndexError, a
\* character that is no digit raises ValueError
RECURSIVE FloatsOfChars(_, _)
FloatsOfChars(s, i) ==
    IF i > 3 THEN Ret(<<100 * DigitVal(s[1]), 100 * DigitVal(s[2]), 100 * DigitVal(s[3])>>)
    ELSE IF i > Len(s) THEN Raise("IndexError")
    ELSE IF ~IsDigit(s[i]) THEN Raise("ValueError")
    ELSE FloatsOfChars(s, i + 1)

\* _dms_to_decimal on a value read from the GPS block: subscripting a number
\* raises TypeError, a tuple that is too short raises IndexError, a string
\* is read character by character
DmsToDecimalOf(val, ref) ==
    CASE val.t = "dms"   -> Ret(DmsToDecimal(val.d, ref))
      [] val.t = "short" -> Raise("IndexError")
      [] val.t = "str"   ->
            IF FloatsOfChars(val.s, 1).exc /= "" THEN FloatsOfChars(val.s, 1)
            ELSE Ret(DmsToDecimal(FloatsOfChars(val.s, 1).v, ref))
      [] OTHER           -> Raise("TypeError")

(***************************************************************************)
(* PhotoOffloader: the EXIF parsers.                                       *)
(***************************************************************************)
PHOTO_DATE_FIELDS == <<"DateTimeOriginal", "DateTimeDigitized", "DateTime">>

CAMERA_MAKE_TAG == "Make"

CAMERA_MODEL_TAG == "Model"

CAMERA_SOFTWARE_TAG == "Software"

PhotoTagNames ==
    {"DateTimeOriginal", "DateTimeDigitized", "DateTime", "Make", "Model", "Software"}

GPS_LATITUDE_REF_TAG_ID == 1

GPS_LATITUDE_TAG_ID == 2

GPS_LONGITUDE_REF_TAG_ID == 3

GPS_LONGITUDE_TAG_ID == 4

\* datetime.strptime(value, EXIF_DATE_FORMAT) inside the try of
\* _parse_exif_date: a value that is no string raises TypeError, a string
\* that does not match raises ValueError
PhotoStrptime(val) ==
    IF val.t /= "str" THEN Raise("TypeError")
    ELSE LET r == Strptime(val.s, EXIF_DATE_FORMAT)
         IN  IF IsNone(r) THEN Raise("ValueError") ELSE Ret(r)

\* a parser that gives up at the first field that is present
RECURSIVE ParseExifDateFromFirstPresent(_, _)
ParseExifDateFromFirstPresent(exif_dict, i) ==
    IF i > Len(PHOTO_DATE_FIELDS) THEN None
    ELSE IF ~Has(exif_dict, PHOTO_DATE_FIELDS[i])
    THEN ParseExifDateFromFirstPresent(exif_dict, i + 1)
    ELSE LET r == PhotoStrptime(exif_dict[PHOTO_DATE_FIELDS[i]])
         IN  IF r.exc \in PHOTO_DATE_CAUGHT THEN None ELSE r.v

\* _parse_exif_date, from the i-th date field on
RECURSIVE ParseExifDateFrom(_, _)
ParseExifDateFrom(exif_dict, i) ==
    IF i > Len(PHOTO_DATE_FIELDS) THEN None
    ELSE IF ~Has(exif_dict, PHOTO_DATE_FIELDS[i]) THEN ParseExifDateFrom(exif_dict, i + 1)
    ELSE LET r == PhotoStrptime(exif_dict[PHOTO_DATE_FIELDS[i]])
         IN  IF r.exc \in PHOTO_DATE_CAUGHT
             THEN ParseExifDateFrom(exif_dict, i + 1)
             ELSE r.v

\* _parse_exif_date
ParseExifDate(exif_dict) == ParseExifDateFrom(exif_dict, 1)

\* gps_info.get(tag_id, default)
GpsGet(gps_info, tag_id, default) ==
    IF gps_info[tag_id].t = "absent" THEN default ELSE gps_info[tag_id]

\* a parser that lets the IndexError of a short tuple leave the function
ParseExifLocationIndexErrorEscapes(exif) ==
    IF ~exif.hasGps THEN Ret(None)
    ELSE IF exif.get_ifd /= ""
    THEN (IF exif.get_ifd \in PHOTO_LOCATION_CAUGHT THEN Ret(None) ELSE Raise(exif.get_ifd))
    ELSE LET lat_ref  == GpsGet(exif.gps, GPS_LATITUDE_REF_TAG_ID, DEFAULT_LATITUDE_REF)
             lat_data == exif.gps[GPS_LATITUDE_TAG_ID]
             lon_ref  == GpsGet(exif.gps, GPS_LONGITUDE_REF_TAG_ID, DEFAULT_LONGITUDE_REF)
             lon_data == exif.gps[GPS_LONGITUDE_TAG_ID]
             latitude  == DmsToDecimalOf(lat_data, lat_ref)
             longitude == DmsToDecimalOf(lon_data, lon_ref)
         IN  IF lat_data.t = "absent" \/ lon_data.t = "absent" THEN Ret(None)
             ELSE IF latitude.exc /= ""
             THEN (IF latitude.exc \in PHOTO_LOCATION_CAUGHT \ {"IndexError"}
                   THEN Ret(None) ELSE Raise(latitude.exc))
             ELSE IF longitude.exc /= ""
             THEN (IF longitude.exc \in PHOTO_LOCATION_CAUGHT \ {"IndexError"}
                   THEN Ret(None) ELSE Raise(longitude.exc))
             ELSE Ret(Some(<<latitude.v, longitude.v>>))

\* _parse_exif_location: exif is the raw Exif object of the image, with
\* hasGps (tag 34853 is in it), get_ifd (the class get_ifd raises, or "")
\* and gps (the GPS block get_ifd returns).  The result's exc is a class
\* the except clause does not name, which leaves the function.
ParseExifLocation(exif) ==
    IF ~exif.hasGps THEN Ret(None)
    ELSE IF exif.get_ifd /= ""
    THEN (IF exif.get_ifd \in PHOTO_LOCATION_CAUGHT THEN Ret(None) ELSE Raise(exif.get_ifd))
    ELSE LET lat_ref  == GpsGet(exif.gps, GPS_LATITUDE_REF_TAG_ID, DEFAULT_LATITUDE_REF)
             lat_data == exif.gps[GPS_LATITUDE_TAG_ID]
             lon_ref  == GpsGet(exif.gps, GPS_LONGITUDE_REF_TAG_ID, DEFAULT_LONGITUDE_REF)
             lon_data == exif.gps[GPS_LONGITUDE_TAG_ID]
             latitude  == DmsToDecimalOf(lat_data, lat_ref)
             longitude == DmsToDecimalOf(lon_data, lon_ref)
         IN  IF lat_data.t = "absent" \/ lon_data.t = "absent" THEN Ret(None)
             ELSE IF latitude.exc /= ""
             THEN (IF latitude.exc \in PHOTO_LOCATION_CAUGHT THEN Ret(None) ELSE Raise(latitude.exc))
             ELSE IF longitude.exc /= ""
             THEN (IF longitude.exc \in PHOTO_LOCATION_CAUGHT THEN Ret(None) ELSE Raise(longitude.exc))
             ELSE Ret(Some(<<latitude.v, longitude.v>>))

\* str(value) if value is not None else None, for a value of the EXIF tags
\* (strings and numbers: the conversion returns)
StrOrNone(val) == IF val.t = "absent" THEN None ELSE Some(StrOf(val).v)

\* _parse_exif_camera_info: (camera_make, camera_model, software)
ParseExifCameraInfo(exif_dict) ==
    <<StrOrNone(exif_dict[CAMERA_MAKE_TAG]),
      StrOrNone(exif_dict[CAMERA_MODEL_TAG]),
      StrOrNone(exif_dict[CAMERA_SOFTWARE_TAG])>>

(***************************************************************************)
(* Metadata records and the per-file extractor of photos.                  *)
(***************************************************************************)
\* PhotoMetadata / VideoMetadata with every optional field None
NoFields ==
    [date_taken |-> None, location |-> None, camera_make |-> None,
     camera_model |-> None, software |-> None]

Metadata(path, f) ==
    [path |-> path, date_taken |-> f.date_taken, location |-> f.location,
     camera_make |-> f.camera_make, camera_model |-> f.camera_model,
     software |-> f.software]

\* bool(exif_data): the Exif mapping holds at least one tag
ExifTruthy(p) == p.hasGps \/ \E tag \in PhotoTagNames : Has(p.tags, tag)

\* an except clause that names the parsers' classes only
CatchesParseErrors(cls) == cls \in {"ValueError", "TypeError"}

\* the except clause of PhotoOffloader._extract_metadata: 'except Exception'
PhotoExtractCatches(cls) == CaughtByExceptException(cls)

\* the three parsers ran on the Exif data: the locals assigned when an
\* exception leaves _parse_exif_location are those assigned before it
PhotoExtractParsed(p, date_taken, location, camera) ==
    IF location.exc /= ""
    THEN [exc |-> location.exc, f |-> [NoFields EXCEPT !.date_taken = date_taken]]
    ELSE [exc |-> p.exit,
          f |-> [date_taken |-> date_taken, location |-> location.v,
                 camera_make |-> camera[1], camera_model |-> camera[2],
                 software |-> camera[3]]]

\* The body of the try of PhotoOffloader._extract_metadata on a file the
\* image library treats as p says: exc is the class that ended the body
\* ("" when it ran to its end) and f holds the locals assigned by then.
PhotoExtractBody(p) ==
    IF p.open /= "" THEN [exc |-> p.open, f |-> NoFields]
    ELSE IF p.getexif /= "" THEN [exc |-> p.getexif, f |-> NoFields]
    ELSE IF ~ExifTruthy(p) THEN [exc |-> p.exit, f |-> NoFields]
    ELSE PhotoExtractParsed(p, ParseExifDate(p.tags), ParseExifLocation(p),
                            ParseExifCameraInfo(p.tags))

\* the except clause and the return of _extract_metadata
PhotoExtractReturn(path, body) ==
    IF body.exc /= "" /\ ~PhotoExtractCatches(body.exc)
    THEN [exc |-> body.exc, rec |-> Metadata(path, NoFields)]
    ELSE [exc |-> "", rec |-> Metadata(path, body.f)]

\* PhotoOffloader._extract_metadata(file_path): exc is the class that leaves
\* the function ("" when it returns) and rec the record it returns
PhotoExtractMetadata(path, p) == PhotoExtractReturn(path, PhotoExtractBody(p))

(***************************************************************************)
(* VideoOffloader: the parsers of exiftool's tag dictionary.               *)
(***************************************************************************)
VIDEO_DATE_FIELDS ==
    <<"QuickTime:CreationDate", "QuickTime:CreateDate", "QuickTime:MediaCreateDate",
      "Keys:CreationDate", "Keys:CreateDate", "CreateDate", "CreationDate",
      "DateTimeOriginal", "MediaCreateDate">>

VIDEO_DATE_FORMATS ==
    << <<"%Y", ":", "%m", ":", "%d", " ", "%H", ":", "%M", ":", "%S">>,
       <<"%Y", "-", "%m", "-", "%d", " ", "%H", ":", "%M", ":", "%S">>,
       <<"%Y", "-", "%m", "-", "%d", "T", "%H", ":", "%M", ":", "%S">>,
       <<"%Y", "-", "%m", "-", "%d", "T", "%H", ":", "%M", ":", "%S", ".", "%f">> >>

\* '%Y-%m-%d'
DATE_ONLY_FORMAT == <<"%Y", "-", "%m", "-", "%d">>

GPS_COORDINATES_TAGS == <<"QuickTime:GPSCoordinates", "Keys:GPSCoordinates">>

GPS_LATITUDE_TAGS == <<"GPSLatitude", "GPS:GPSLatitude">>

GPS_LONGITUDE_TAGS == <<"GPSLongitude", "GPS:GPSLongitude">>

GPS_LATITUDE_REF_TAG == "GPSLatitudeRef"

GPS_LONGITUDE_REF_TAG == "GPSLongitudeRef"

CAMERA_MAKE_TAGS == <<"Make", "QuickTime:Make", "Keys:Make">>

CAMERA_MODEL_TAGS == <<"Model", "QuickTime:Model", "Keys:Model">>

CAMERA_SOFTWARE_TAGS == <<"Software", "QuickTime:Software", "Keys:Software", "CreatorTool">>

MIN_DATE_STRING_LENGTH == 10

COLON_REPLACEMENT_COUNT == 2

MIN_GPS_PARTS == 2

Range(seq) == {seq[i] : i \in 1..Len(seq)}

VideoTagNames ==
    Range(VIDEO_DATE_FIELDS) \cup Range(GPS_COORDINATES_TAGS) \cup Range(GPS_LATITUDE_TAGS)
    \cup Range(GPS_LONGITUDE_TAGS) \cup {GPS_LATITUDE_REF_TAG, GPS_LONGITUDE_REF_TAG}
    \cup Range(CAMERA_MAKE_TAGS) \cup Range(CAMERA_MODEL_TAGS) \cup Range(CAMERA_SOFTWARE_TAGS)

VIDEO_DATE_CAUGHT == {"ValueError", "TypeError", "AttributeError"}

VIDEO_LOCATION_CAUGHT == {"KeyError", "TypeError", "ValueError", "AttributeError"}

\* TZ_OFFSET_PATTERN, [+-]\d{2}:\d{2}$, matches the end of s
HasTzOffset(s) ==
    LET n == Len(s)
    IN  /\ n >= 6
        /\ s[n - 5] \in {"+", "-"}
        /\ IsDigit(s[n - 4]) /\ IsDigit(s[n - 3])
        /\ s[n - 2] = ":"
        /\ IsDigit(s[n - 1]) /\ IsDigit(s[n])

\* a pattern that knows offsets west of Greenwich only
StripNegativeTzOffset(s) ==
    IF HasTzOffset(s) /\ s[Len(s) - 5] = "-" THEN SubSeq(s, 1, Len(s) - 6) ELSE s

\* TZ_OFFSET_PATTERN.sub('', s) when the pattern matches, else s
StripTzOffset(s) == IF HasTzOffset(s) THEN SubSeq(s, 1, Len(s) - 6) ELSE s

Contains(s, c) == \E i \in 1..Len(s) : s[i] = c

\* s[:n]
Prefix(s, n) == IF Len(s) <= n THEN s ELSE SubSeq(s, 1, n)

\* s.replace(old, new, count) for one-character old and new
RECURSIVE ReplaceFirst(_, _, _, _)
ReplaceFirst(s, old, new, count) ==
    IF count = 0 \/ Len(s) = 0 THEN s
    ELSE IF s[1] = old THEN <<new>> \o ReplaceFirst(Tail(s), old, new, count - 1)
    ELSE <<s[1]>> \o ReplaceFirst(Tail(s), old, new, count)

\* the loop over DATE_FORMATS: the first format that parses s, from the i-th
RECURSIVE TryDateFormats(_, _)
TryDateFormats(s, i) ==
    IF i > Len(VIDEO_DATE_FORMATS) THEN None
    ELSE LET r == Strptime(s, VIDEO_DATE_FORMATS[i])
         IN  IF IsSome(r) THEN r ELSE TryDateFormats(s, i + 1)

\* the date part the fallback of _parse_date cuts from the string
DatePart(s) ==
    IF Contains(s, "T") THEN Split(s, "T")[1]
    ELSE IF Contains(s, " ") THEN Split(s, " ")[1]
    ELSE IF Len(s) >= MIN_DATE_STRING_LENGTH THEN Prefix(s, MIN_DATE_STRING_LENGTH)
    ELSE s

\* a fallback that reads the date part with dashes only
ParseDatePartDashesOnly(date_part) ==
    IF Len(date_part) >= MIN_DATE_STRING_LENGTH
    THEN Strptime(Prefix(date_part, MIN_DATE_STRING_LENGTH), DATE_ONLY_FORMAT)
    ELSE None

\* the fallback of _parse_date on the date part: colons turned into dashes
\* first, then the part as it stands
ParseDatePart(date_part) ==
    LET dashed == Strptime(Prefix(ReplaceFirst(date_part, ":", "-", COLON_REPLACEMENT_COUNT),
                                  MIN_DATE_STRING_LENGTH), DATE_ONLY_FORMAT)
        plain  == Strptime(Prefix(date_part, MIN_DATE_STRING_LENGTH), DATE_ONLY_FORMAT)
    IN  IF Contains(date_part, ":") /\ Len(date_part) >= MIN_DATE_STRING_LENGTH /\ IsSome(dashed)
        THEN dashed
        ELSE IF Len(date_part) >= MIN_DATE_STRING_LENGTH THEN plain
        ELSE None

\* the body of the try of _parse_date on the string of one field
ParseDateString(date_str) ==
    LET date_str_no_tz == StripTzOffset(date_str)
        full == TryDateFormats(date_str_no_tz, 1)
    IN  IF IsSome(full) THEN full ELSE ParseDatePart(DatePart(date_str_no_tz))

\* a parser that ends at a field whose string conversion raises
RECURSIVE VideoParseDateFromAborting(_, _)
VideoParseDateFromAborting(metadata, i) ==
    IF i > Len(VIDEO_DATE_FIELDS) THEN Ret(None)
    ELSE IF ~Has(metadata, VIDEO_DATE_FIELDS[i]) THEN VideoParseDateFromAborting(metadata, i + 1)
    ELSE LET str == StrOf(metadata[VIDEO_DATE_FIELDS[i]])
         IN  IF str.exc /= "" THEN Ret(None)
             ELSE LET r == ParseDateString(str.v)
                  IN  IF IsSome(r) THEN Ret(r)
                      ELSE VideoParseDateFromAborting(metadata, i + 1)

\* _parse_date from the i-th date field on: exc is a class raised by a
\* value's string conversion that the except clause does not name
RECURSIVE VideoParseDateFrom(_, _)
VideoParseDateFrom(metadata, i) ==
    IF i > Len(VIDEO_DATE_FIELDS) THEN Ret(None)
    ELSE IF ~Has(metadata, VIDEO_DATE_FIELDS[i]) THEN VideoParseDateFrom(metadata, i + 1)
    ELSE LET str == StrOf(metadata[VIDEO_DATE_FIELDS[i]])
         IN  IF str.exc /= ""
             THEN (IF str.exc \in VIDEO_DATE_CAUGHT
                   THEN VideoParseDateFrom(metadata, i + 1)
                   ELSE Raise(str.exc))
             ELSE LET r == ParseDateString(str.v)
                  IN  IF IsSome(r) THEN Ret(r) ELSE VideoParseDateFrom(metadata, i + 1)

\* VideoOffloader._parse_date
VideoParseDate(metadata) == VideoParseDateFrom(metadata, 1)

\* the length of the run of characters of the set cs in s from position i
RECURSIVE CharRun(_, _, _)
CharRun(s, i, cs) == IF CharAt(s, i) \in cs THEN 1 + CharRun(s, i + 1, cs) ELSE 0

DigitSet == Range(Digits)

\* 10^k
RECURSIVE Pow10(_)
Pow10(k) == IF k = 0 THEN 1 ELSE 10 * Pow10(k - 1)

\* s.strip() for blanks
RECURSIVE Strip(_)
Strip(s) ==
    IF Len(s) > 0 /\ s[1] = " " THEN Strip(Tail(s))
    ELSE IF Len(s) > 0 /\ s[Len(s)] = " " THEN Strip(SubSeq(s, 1, Len(s) - 1))
    ELSE s

\* float of an unsigned literal s with ni digits before the point and nf
\* after it, as a fixed-point number
FixedValue(s, ni, nf, places) ==
    DigitsToInt(SubSeq(s, 1, ni)) * Pow10(places)
      + DigitsToInt(Prefix(SubSeq(s, ni + 2, ni + 1 + nf) \o [i \in 1..places |-> "0"], places))

\* float of an unsigned literal: digits and at most one point, with a digit
\* on one side of it at least
ParseDigits(s, ni, nf, places) ==
    IF ni + nf > 0 /\ Len(s) = ni + (IF CharAt(s, ni + 1) = "." THEN 1 + nf ELSE 0)
    THEN Some(FixedValue(s, ni, nf, places))
    ELSE None

ParseUnsigned(s, ni, places) ==
    ParseDigits(s, ni, IF CharAt(s, ni + 1) = "." THEN CharRun(s, ni + 2, DigitSet) ELSE 0, places)

Negated(r) == IF IsNone(r) THEN None ELSE Some(0 - Val(r))

\* float of a literal with an optional sign
ParseSigned(s, places) ==
    IF CharAt(s, 1) = "-" THEN Negated(ParseUnsigned(Tail(s), CharRun(Tail(s), 1, DigitSet), places))
    ELSE IF CharAt(s, 1) = "+" THEN ParseUnsigned(Tail(s), CharRun(Tail(s), 1, DigitSet), places)
    ELSE ParseUnsigned(s, CharRun(s, 1, DigitSet), places)

\* float(s) as a fixed-point number with the given number of decimal places
\* (the value times 10^places; further digits are dropped), None where
\* float raises ValueError.  The syntax is an optional sign, digits and at
\* most one point, with a digit on one side of it at least; float's other
\* spellings (exponents, inf, nan, underscores) are outside the model.
ParseFixed(str, places) == ParseSigned(Strip(str), places)

\* s.split(): the parts between runs of blanks
RECURSIVE SplitBlank(_)
SplitBlank(s) ==
    LET t == Strip(s)
    IN  IF Len(t) = 0 THEN <<>>
        ELSE LET n == CharRun(t, 1, {t[i] : i \in 1..Len(t)} \ {" "})
             IN  <<SubSeq(t, 1, n)>> \o SplitBlank(SubSeq(t, n + 1, Len(t)))

\* a coordinate of four decimal places in units of 1/360000 degree
Scaled(r) == IF IsNone(r) THEN None ELSE Some(Val(r) * 36)

\* float(s) of a coordinate in decimal degrees, in units of 1/360000 degree:
\* four decimal places are kept, and one unit of the fourth place is 36 units
ParseCoordinate(s) == Scaled(ParseFixed(s, 4))

\* the position after the run of characters of cs that starts at i
SkipRun(s, i, cs) == i + CharRun(s, i, cs)

\* the position after an optional apostrophe at i
SkipApostrophe(s, i) == IF CharAt(s, i) = "'" THEN i + 1 ELSE i

\* DMS_PATTERN from its third group on: the group starts at p3, the second
\* one spans p2..q-1.  The second group gives back its last digit to the
\* third when nothing else can start the third.
DmsMatchSeconds(s, n1, p2, q, p3) ==
    IF CharRun(s, p3, DigitSet \cup {"."}) > 0
    THEN Some(<<SubSeq(s, 1, n1), SubSeq(s, p2, q - 1),
               SubSeq(s, p3, SkipRun(s, p3, DigitSet \cup {"."}) - 1)>>)
    ELSE IF q - p2 >= 2
    THEN Some(<<SubSeq(s, 1, n1), SubSeq(s, p2, q - 2),
               SubSeq(s, q - 1, SkipRun(s, q - 1, DigitSet \cup {"."}) - 1)>>)
    ELSE None

\* DMS_PATTERN from its second group on: the group starts at p2 and ends
\* before q
DmsMatchMinutes(s, n1, p2, q) ==
    IF q = p2 THEN None
    ELSE DmsMatchSeconds(s, n1, p2, q,
                         SkipRun(s, SkipApostrophe(s, SkipRun(s, q, {" "})), {" "}))

\* DMS_PATTERN after its first group of n1 digits: blanks end before pd,
\* where "deg" must stand; blanks after it end before p2
DmsMatchDeg(s, n1, pd, p2) ==
    IF pd > n1 + 1 /\ CharAt(s, pd) = "d" /\ CharAt(s, pd + 1) = "e" /\ CharAt(s, pd + 2) = "g"
       /\ p2 > pd + 3
    THEN DmsMatchMinutes(s, n1, p2, SkipRun(s, p2, DigitSet))
    ELSE None

DmsMatchDegrees(s, n1, pd) ==
    IF n1 = 0 THEN None ELSE DmsMatchDeg(s, n1, pd, SkipRun(s, pd + 3, {" "}))

\* DMS_PATTERN.match(s), (\d+)\s+deg\s+(\d+)\s*'?\s*([\d.]+)\s*\"? : None, or
\* the three groups
DmsMatch(s) ==
    DmsMatchDegrees(s, CharRun(s, 1, DigitSet), SkipRun(s, SkipRun(s, 1, DigitSet), {" "}))

\* the DMS triple (in hundredths) of a match: int, int, float; None where
\* float(group 3) raises ValueError
DmsOfMatch(g) ==
    LET sec == ParseFixed(g[3], 2)
    IN  IF IsNone(sec) THEN None
        ELSE Some(<<DigitsToInt(g[1]) * 100, DigitsToInt(g[2]) * 100, Val(sec)>>)

\* the first tag of the list the mapping holds ("" when it holds none)
RECURSIVE FirstTagFrom(_, _, _)
FirstTagFrom(metadata, tags, i) ==
    IF i > Len(tags) THEN ""
    ELSE IF Has(metadata, tags[i]) THEN tags[i]
    ELSE FirstTagFrom(metadata, tags, i + 1)

FirstTag(metadata, tags) == FirstTagFrom(metadata, tags, 1)

\* coordinates read from one token when there is no second
CoordinatesOfFirstPart(parts) ==
    IF Len(parts) >= 1 /\ IsSome(ParseCoordinate(parts[1]))
    THEN Some(<<Val(ParseCoordinate(parts[1])),
               IF Len(parts) >= 2 /\ IsSome(ParseCoordinate(parts[2]))
               THEN Val(ParseCoordinate(parts[2])) ELSE 0>>)
    ELSE None

\* lat, lon = float(parts[0]), float(parts[1]) of a combined tag's parts:
\* None where there are fewer than MIN_GPS_PARTS or float raises ValueError
CoordinatesOfParts(parts) ==
    IF Len(parts) >= MIN_GPS_PARTS /\ IsSome(ParseCoordinate(parts[1]))
       /\ IsSome(ParseCoordinate(parts[2]))
    THEN Some(<<Val(ParseCoordinate(parts[1])), Val(ParseCoordinate(parts[2]))>>)
    ELSE None

\* the loop of _parse_location over GPS_COORDINATES_TAGS, from the i-th tag
RECURSIVE ParseGpsCoordinatesFrom(_, _)
\* one iteration of that loop on the tag's string
ParseGpsCoordinatesOf(metadata, i, str, coords) ==
    IF str.exc /= "" THEN Raise(str.exc)
    ELSE IF IsSome(coords) THEN Ret(coords)
    ELSE ParseGpsCoordinatesFrom(metadata, i + 1)

ParseGpsCoordinatesFrom(metadata, i) ==
    IF i > Len(GPS_COORDINATES_TAGS) THEN Ret(None)
    ELSE IF ~Has(metadata, GPS_COORDINATES_TAGS[i]) THEN ParseGpsCoordinatesFrom(metadata, i + 1)
    ELSE ParseGpsCoordinatesOf(metadata, i, StrOf(metadata[GPS_COORDINATES_TAGS[i]]),
                               CoordinatesOfParts(SplitBlank(StrOf(metadata[GPS_COORDINATES_TAGS[i]]).v)))

\* a DMS branch that converts under the default references
LatLonOfDmsDefaultRefs(lat_dms, lon_dms, lat_ref, lon_ref) ==
    IF IsNone(lat_dms) \/ IsNone(lon_dms) THEN Raise("ValueError")
    ELSE Ret(Some(<<VideoDmsToDecimal(Val(lat_dms), DEFAULT_LATITUDE_REF),
                    VideoDmsToDecimal(Val(lon_dms), DEFAULT_LONGITUDE_REF)>>))

\* the DMS branch of _parse_location: both strings matched DMS_PATTERN
LatLonOfDms(lat_dms, lon_dms, lat_ref, lon_ref) ==
    IF IsNone(lat_dms) \/ IsNone(lon_dms) THEN Raise("ValueError")
    ELSE Ret(Some(<<VideoDmsToDecimal(Val(lat_dms), lat_ref),
                    VideoDmsToDecimal(Val(lon_dms), lon_ref)>>))

\* the decimal branch of _parse_location: None where float raises ValueError
LatLonOfDecimal(lat, lon) ==
    IF IsSome(lat) /\ IsSome(lon) THEN Ret(Some(<<Val(lat), Val(lon)>>)) ELSE Ret(None)

\* the choice between the two branches
LatLonOfMatches(lat_str, lon_str, lat_match, lon_match, lat_ref, lon_ref) ==
    IF IsSome(lat_match) /\ IsSome(lon_match)
    THEN LatLonOfDms(DmsOfMatch(Val(lat_match)), DmsOfMatch(Val(lon_match)), lat_ref, lon_ref)
    ELSE LatLonOfDecimal(ParseCoordinate(lat_str), ParseCoordinate(lon_str))

\* lat_str = str(metadata[lat_tag]), lon_str = str(metadata[lon_tag]) and
\* what follows
LatLonOfStrings(lat_str, lon_str, lat_ref, lon_ref) ==
    IF lat_str.exc /= "" THEN Raise(lat_str.exc)
    ELSE IF lon_str.exc /= "" THEN Raise(lon_str.exc)
    ELSE LatLonOfMatches(lat_str.v, lon_str.v, DmsMatch(lat_str.v), DmsMatch(lon_str.v),
                         lat_ref, lon_ref)

\* metadata.get(tag, default)
TagOrDefault(metadata, tag, default) == IF Has(metadata, tag) THEN metadata[tag] ELSE default

LatLonOfTags(metadata, lat_tag, lon_tag) ==
    IF lat_tag = "" \/ lon_tag = "" THEN Ret(None)
    ELSE LatLonOfStrings(StrOf(metadata[lat_tag]), StrOf(metadata[lon_tag]),
                         TagOrDefault(metadata, GPS_LATITUDE_REF_TAG, DEFAULT_LATITUDE_REF),
                         TagOrDefault(metadata, GPS_LONGITUDE_REF_TAG, DEFAULT_LONGITUDE_REF))

\* the second part of _parse_location: the separate latitude and longitude
\* tags, in DMS notation or as decimal numbers
ParseGpsLatLon(metadata) ==
    LatLonOfTags(metadata, FirstTag(metadata, GPS_LATITUDE_TAGS),
                 FirstTag(metadata, GPS_LONGITUDE_TAGS))

\* the except clause of _parse_location: a caught exception gives None
LocationCaught(r) ==
    IF r.exc = "" THEN r
    ELSE IF r.exc \in VIDEO_LOCATION_CAUGHT THEN Ret(None)
    ELSE Raise(r.exc)

\* the combined tags gave coords; the separate tags are read when they gave
\* nothing
LocationOr(metadata, coords) ==
    IF coords.exc = "" /\ IsNone(coords.v)
    THEN LocationCaught(ParseGpsLatLon(metadata))
    ELSE LocationCaught(coords)

\* VideoOffloader._parse_location: exc is a class the except clauses do not
\* name, which leaves the function
VideoParseLocation(metadata) ==
    LocationOr(metadata, ParseGpsCoordinatesFrom(metadata, 1))

\* one attribute of _parse_camera_info: str(metadata[tag]) of the first tag
\* of the list the mapping holds; the conversion is not guarded
CameraAttribute(metadata, tags) ==
    IF FirstTag(metadata, tags) = "" THEN Ret(None)
    ELSE IF StrOf(metadata[FirstTag(metadata, tags)]).exc /= ""
    THEN Raise(StrOf(metadata[FirstTag(metadata, tags)]).exc)
    ELSE Ret(Some(StrOf(metadata[FirstTag(metadata, tags)]).v))

\* the three attributes as one result
CameraInfoOf(make, model, software) ==
    IF make.exc /= "" THEN Raise(make.exc)
    ELSE IF model.exc /= "" THEN Raise(model.exc)
    ELSE IF software.exc /= "" THEN Raise(software.exc)
    ELSE Ret(<<make.v, model.v, software.v>>)

\* VideoOffloader._parse_camera_info: v is (camera_make, camera_model, software)
VideoParseCameraInfo(metadata) ==
    CameraInfoOf(CameraAttribute(metadata, CAMERA_MAKE_TAGS),
                 CameraAttribute(metadata, CAMERA_MODEL_TAGS),
                 CameraAttribute(metadata, CAMERA_SOFTWARE_TAGS))

(***************************************************************************)
(* The per-file extractor of videos.  A video file is what exiftool does   *)
(* with it: helper (the class ExifToolHelper() raises, or ""), and for the *)
(* invocation with -ee and the plain one the class get_metadata raises (or *)
(* ""), whether the list it returns holds an entry, and that entry's tags. *)
(***************************************************************************)
NoVideoTags == [tag \in VideoTagNames |-> Absent]

\* bool(metadata): the dictionary holds at least one tag
TagsTruthy(metadata) == \E tag \in VideoTagNames : Has(metadata, tag)

\* the two 'except Exception' clauses around get_metadata
VideoProbeCatches(cls) == CaughtByExceptException(cls)

\* metadata_list[0] if metadata_list else {}
FirstOrEmpty(hasEntry, tags) == IF hasEntry THEN tags ELSE NoVideoTags

\* a probe that also retries plainly when the first invocation returns an
\* empty list
VideoProbeRetryingOnEmpty(v) ==
    IF v.eeExc = "" /\ v.eeList
    THEN [exc |-> "", calls |-> <<"-ee">>, v |-> v.eeTags]
    ELSE IF v.plainExc = ""
    THEN [exc |-> "", calls |-> <<"-ee", "plain">>, v |-> FirstOrEmpty(v.plainList, v.plainTags)]
    ELSE [exc |-> "", calls |-> <<"-ee", "plain">>, v |-> NoVideoTags]

\* The probe of _extract_metadata: get_metadata with EXIFTOOL_EMBEDDED_PARAMS
\* first, the plain get_metadata if that raised, {} if both raised.  calls
\* lists the invocations made; exc is a class neither clause catches.
VideoProbe(v) ==
    IF v.eeExc = ""
    THEN [exc |-> "", calls |-> <<"-ee">>, v |-> FirstOrEmpty(v.eeList, v.eeTags)]
    ELSE IF ~VideoProbeCatches(v.eeExc)
    THEN [exc |-> v.eeExc, calls |-> <<"-ee">>, v |-> NoVideoTags]
    ELSE IF v.plainExc = ""
    THEN [exc |-> "", calls |-> <<"-ee", "plain">>, v |-> FirstOrEmpty(v.plainList, v.plainTags)]
    ELSE IF ~VideoProbeCatches(v.plainExc)
    THEN [exc |-> v.plainExc, calls |-> <<"-ee", "plain">>, v |-> NoVideoTags]
    ELSE [exc |-> "", calls |-> <<"-ee", "plain">>, v |-> NoVideoTags]

\* the except clause of VideoOffloader._extract_metadata: 'except Exception'
VideoExtractCatches(cls) == CaughtByExceptException(cls)

\* the three parsers ran on the probe's tags: the locals assigned when an
\* exception leaves one of them are those of the parsers before it
VideoExtractParsed(v, date_taken, location, camera) ==
    IF date_taken.exc /= "" THEN [exc |-> date_taken.exc, f |-> NoFields]
    ELSE IF location.exc /= ""
    THEN [exc |-> location.exc, f |-> [NoFields EXCEPT !.date_taken = date_taken.v]]
    ELSE IF camera.exc /= ""
    THEN [exc |-> camera.exc,
          f |-> [NoFields EXCEPT !.date_taken = date_taken.v, !.location = location.v]]
    ELSE [exc |-> v.exit,
          f |-> [date_taken |-> date_taken.v, location |-> location.v,
                 camera_make |-> camera.v[1], camera_model |-> camera.v[2],
                 software |-> camera.v[3]]]

\* the body after the probe
VideoExtractProbed(v, probe) ==
    IF probe.exc /= "" THEN [exc |-> probe.exc, f |-> NoFields]
    ELSE IF ~TagsTruthy(probe.v) THEN [exc |-> v.exit, f |-> NoFields]
    ELSE VideoExtractParsed(v, VideoParseDate(probe.v), VideoParseLocation(probe.v),
                            VideoParseCameraInfo(probe.v))

\* The body of the outer try of VideoOffloader._extract_metadata: exc is the
\* class that ended it ("" when it ran to its end) and f holds the locals
\* assigned by then.
VideoExtractBody(v) ==
    IF v.helper /= "" THEN [exc |-> v.helper, f |-> NoFields]
    ELSE VideoExtractProbed(v, VideoProbe(v))

\* the except clause and the return of _extract_metadata
VideoExtractReturn(path, body) ==
    IF body.exc /= "" /\ ~VideoExtractCatches(body.exc)
    THEN [exc |-> body.exc, rec |-> Metadata(path, NoFields)]
    ELSE [exc |-> "", rec |-> Metadata(path, body.f)]

\* VideoOffloader._extract_metadata(file_path): exc is the class that leaves
\* the function ("" when it returns) and rec the record it returns
VideoExtractMetadata(path, v) == VideoExtractReturn(path, VideoExtractBody(v))

(***************************************************************************)
(* Bucketing.                                                              *)
(***************************************************************************)
\* the key of the year_month_day grouping in the place of the year_month one
YearMonthDayKey(rec) ==
    IF IsSome(rec.date_taken)
    THEN IntToStr(Val(rec.date_taken).year) \o <<YEAR_MONTH_SEPARATOR>>
         \o Pad2(Val(rec.date_taken).month) \o <<YEAR_MONTH_SEPARATOR>>
         \o Pad2(Val(rec.date_taken).day)
    ELSE UNKNOWN_BUCKET_KEY

\* _get_bucket_key(record, GroupBy.YEAR_MONTH)
YearMonthKey(rec) ==
    IF IsSome(rec.date_taken)
    THEN IntToStr(Val(rec.date_taken).year) \o <<YEAR_MONTH_SEPARATOR>>
         \o Pad2(Val(rec.date_taken).month)
    ELSE UNKNOWN_BUCKET_KEY

\* a dict that starts a new list for every record, the key's earlier list
\* being replaced
SetDefaultReplace(buckets, key, rec) ==
    IF \E i \in 1..Len(buckets) : buckets[i].key = key
    THEN [i \in 1..Len(buckets) |->
            IF buckets[i].key = key
            THEN [buckets[i] EXCEPT !.items = <<rec>>]
            ELSE buckets[i]]
    ELSE Append(buckets, [key |-> key, items |-> <<rec>>])

\* buckets.setdefault(key, []).append(rec) on a dict kept as the sequence of
\* its (key, items) pairs in insertion order
SetDefaultAppend(buckets, key, rec) ==
    IF \E i \in 1..Len(buckets) : buckets[i].key = key
    THEN [i \in 1..Len(buckets) |->
            IF buckets[i].key = key
            THEN [buckets[i] EXCEPT !.items = Append(@, rec)]
            ELSE buckets[i]]
    ELSE Append(buckets, [key |-> key, items |-> <<rec>>])

\* the loop of bucket_photos / bucket_videos over recs[i..], key by key
RECURSIVE BucketFrom(_, _, _, _)
BucketFrom(recs, keyOf, i, buckets) ==
    IF i > Len(recs) THEN buckets
    ELSE BucketFrom(recs, keyOf, i + 1, SetDefaultAppend(buckets, keyOf[i], recs[i]))

\* bucket_photos / bucket_videos(records, GroupBy.YEAR_MONTH)
BucketByYearMonth(recs) ==
    BucketFrom(recs, [i \in 1..Len(recs) |-> YearMonthKey(recs[i])], 1, <<>>)

\* the members of the enum GroupBy, by their values
GroupBy ==
    {"software", "camera_make", "camera_model", "year", "year_month", "year_month_day"}

\* _get_bucket_key(photo, group_by) for a member of GroupBy; the method of
\* VideoOffloader is the same text. The last branch, which raises
\* ValueError, takes a group_by that is no member.
GetBucketKey(photo, group_by) ==
    CASE group_by = "software" ->
            IF IsSome(photo.software) THEN Val(photo.software) ELSE UNKNOWN_BUCKET_KEY
      [] group_by = "camera_make" ->
            IF IsSome(photo.camera_make) THEN Val(photo.camera_make) ELSE UNKNOWN_BUCKET_KEY
      [] group_by = "camera_model" ->
            IF IsSome(photo.camera_model) THEN Val(photo.camera_model) ELSE UNKNOWN_BUCKET_KEY
      [] group_by = "year" ->
            IF IsSome(photo.date_taken) THEN IntToStr(Val(photo.date_taken).year)
            ELSE UNKNOWN_BUCKET_KEY
      [] group_by = "year_month" -> YearMonthKey(photo)
      [] group_by = "year_month_day" ->
            IF IsSome(photo.date_taken)
            THEN IntToStr(Val(photo.date_taken).year) \o <<YEAR_MONTH_SEPARATOR>>
                 \o Pad2(Val(photo.date_taken).month) \o <<YEAR_MONTH_SEPARATOR>>
                 \o Pad2(Val(photo.date_taken).day)
            ELSE UNKNOWN_BUCKET_KEY

\* bucket_photos / bucket_videos(photos, group_by): the dict as the sequence
\* of its (key, items) pairs in insertion order
BucketPhotos(photos, group_by) ==
    BucketFrom(photos, [i \in 1..Len(photos) |-> GetBucketKey(photos[i], group_by)], 1, <<>>)

(***************************************************************************)
(* Sorting.                                                                *)
(***************************************************************************)
\* ord(c) for the characters of the model
Ord(c) ==
    CASE c = " " -> 32
      [] c = "." -> 46
      [] IsDigit(c) -> 48 + DigitVal(c)
      [] \E i \in 1..26 : Upper[i] = c -> 64 + (CHOOSE i \in 1..26 : Upper[i] = c)
      [] \E i \in 1..26 : Lower[i] = c -> 96 + (CHOOSE i \in 1..26 : Lower[i] = c)

\* a string as the sequence of its code points, which compares as the
\* string does
OrdsOf(s) == [i \in 1..Len(s) |-> Ord(s[i])]

\* a datetime as the sequence of the numbers it is compared by
DateTimeFields(dt) ==
    <<dt.year, dt.month, dt.day, dt.hour, dt.minute, dt.second, dt.microsecond>>

\* datetime.max
DateTimeMax ==
    [year |-> 9999, month |-> 12, day |-> 31, hour |-> 23, minute |-> 59, second |-> 59,
     microsecond |-> 999999]

\* a < b for two tuples flattened to sequences of numbers: the first place
\* where they differ decides, and a proper prefix is the smaller
RECURSIVE TupleLess(_, _)
TupleLess(a, b) ==
    IF a = <<>> THEN b /= <<>>
    ELSE IF b = <<>> THEN FALSE
    ELSE IF Head(a) /= Head(b) THEN Head(a) < Head(b)
    ELSE TupleLess(Tail(a), Tail(b))

\* a sort key with another rank for the absent values: the rank of the
\* present ones
GetSortKeyOneRank(photo, group_by) ==
    CASE group_by = "software" ->
            IF IsSome(photo.software) THEN <<0>> \o OrdsOf(Val(photo.software))
            ELSE <<0>> \o OrdsOf(UNKNOWN_BUCKET_KEY)
      [] group_by = "camera_make" ->
            IF IsSome(photo.camera_make) THEN <<0>> \o OrdsOf(Val(photo.camera_make))
            ELSE <<0>> \o OrdsOf(UNKNOWN_BUCKET_KEY)
      [] group_by = "camera_model" ->
            IF IsSome(photo.camera_model) THEN <<0>> \o OrdsOf(Val(photo.camera_model))
            ELSE <<0>> \o OrdsOf(UNKNOWN_BUCKET_KEY)
      [] group_by = "year" ->
            IF IsSome(photo.date_taken) THEN <<0, Val(photo.date_taken).year>>
            ELSE <<0>> \o DateTimeFields(DateTimeMax)
      [] group_by = "year_month" ->
            IF IsSome(photo.date_taken)
            THEN <<0, Val(photo.date_taken).year, Val(photo.date_taken).month>>
            ELSE <<0>> \o DateTimeFields(DateTimeMax)
      [] group_by = "year_month_day" ->
            IF IsSome(photo.date_taken) THEN <<0>> \o DateTimeFields(Val(photo.date_taken))
            ELSE <<0>> \o DateTimeFields(DateTimeMax)

\* _get_sort_key(photo, group_by) for a member of GroupBy, the tuple
\* flattened to a sequence of numbers; the method of VideoOffloader is the
\* same text. The last branch, which raises ValueError, takes a group_by
\* that is no member.
GetSortKey(photo, group_by) ==
    CASE group_by = "software" ->
            IF IsSome(photo.software) THEN <<0>> \o OrdsOf(Val(photo.software))
            ELSE <<1>> \o OrdsOf(UNKNOWN_BUCKET_KEY)
      [] group_by = "camera_make" ->
            IF IsSome(photo.camera_make) THEN <<0>> \o OrdsOf(Val(photo.camera_make))
            ELSE <<1>> \o OrdsOf(UNKNOWN_BUCKET_KEY)
      [] group_by = "camera_model" ->
            IF IsSome(photo.camera_model) THEN <<0>> \o OrdsOf(Val(photo.camera_model))
            ELSE <<1>> \o OrdsOf(UNKNOWN_BUCKET_KEY)
      [] group_by = "year" ->
            IF IsSome(photo.date_taken) THEN <<0, Val(photo.date_taken).year>>
            ELSE <<1>> \o DateTimeFields(DateTimeMax)
      [] group_by = "year_month" ->
            IF IsSome(photo.date_taken)
            THEN <<0, Val(photo.date_taken).year, Val(photo.date_taken).month>>
            ELSE <<1>> \o DateTimeFields(DateTimeMax)
      [] group_by = "year_month_day" ->
            IF IsSome(photo.date_taken) THEN <<0>> \o DateTimeFields(Val(photo.date_taken))
            ELSE <<1>> \o DateTimeFields(DateTimeMax)

\* one step of sorted(): x is put before the first item whose key is
\* greater than its own, so after the items of an equal key
RECURSIVE InsertSorted(_, _, _)
InsertSorted(items, x, group_by) ==
    IF items = <<>> THEN <<x>>
    ELSE IF TupleLess(GetSortKey(x, group_by), GetSortKey(Head(items), group_by))
         THEN <<x>> \o items
         ELSE <<Head(items)>> \o InsertSorted(Tail(items), x, group_by)

\* sorted(photos, key=...) over photos[i..], the items before them sorted
RECURSIVE SortedFrom(_, _, _, _)
SortedFrom(photos, group_by, i, items) ==
    IF i > Len(photos) THEN items
    ELSE SortedFrom(photos, group_by, i + 1, InsertSorted(items, photos[i], group_by))

\* sort_photos / sort_videos(photos, group_by)
SortPhotos(photos, group_by) == SortedFrom(photos, group_by, 1, <<>>)

(***************************************************************************)
(* The per-bucket dispatch of offload_photos / offload_videos.             *)
(***************************************************************************)
\* year, month = year_month.split(SEPARATOR); int(year); int(month) raises
\* ValueError: not exactly two parts, or a part that is no integer
YearMonthParses(year_month) ==
    LET parts == Split(year_month, YEAR_MONTH_SEPARATOR)
    IN  Len(parts) = 2 /\ IsIntLiteral(parts[1]) /\ IsIntLiteral(parts[2])

\* a month directory named by the year alone
MonthDirOfYear(year_month) ==
    LET parts == Split(year_month, YEAR_MONTH_SEPARATOR)
    IN  <<YEAR_PREFIX \o IntToStr(DigitsToInt(parts[1])), MONTH_PREFIX>>

\* MonthDir with the month as int() gives it, without padding
MonthDirUnpadded(year_month) ==
    LET parts == Split(year_month, YEAR_MONTH_SEPARATOR)
    IN  <<YEAR_PREFIX \o IntToStr(DigitsToInt(parts[1])),
          MONTH_PREFIX \o IntToStr(DigitsToInt(parts[2]))>>

\* dest_path / f"{YEAR_PREFIX}{year}" / f"{MONTH_PREFIX}{month:02d}", as the
\* path's components below the destination directory
MonthDir(year_month) ==
    LET parts == Split(year_month, YEAR_MONTH_SEPARATOR)
        year  == DigitsToInt(parts[1])
        month == DigitsToInt(parts[2])
    IN  <<YEAR_PREFIX \o IntToStr(year), MONTH_PREFIX \o Pad2(month)>>

\* dest_path / UNKNOWN_DIRECTORY
UnknownDir == <<UNKNOWN_DIRECTORY>>

\* Dispatch with a bucket whose key does not parse always skipped
DispatchSkippingInvalid(year_month, keepUnknown) ==
    IF year_month = UNKNOWN_BUCKET_KEY
    THEN [route |-> "unknown", save |-> keepUnknown, dir |-> <<UNKNOWN_DIRECTORY>>]
    ELSE IF ~YearMonthParses(year_month)
    THEN [route |-> "invalid", save |-> FALSE, dir |-> <<UNKNOWN_DIRECTORY>>]
    ELSE [route |-> "month", save |-> TRUE, dir |-> MonthDir(year_month)]

\* where the loop of offload_photos / offload_videos sends a bucket: route is
\* "unknown" (the key is the sentinel), "invalid" (the key does not parse)
\* or "month"; save tells whether _save_photos / _save_videos is called and
\* dir where to
Dispatch(year_month, keepUnknown) ==
    IF year_month = UNKNOWN_BUCKET_KEY
    THEN [route |-> "unknown", save |-> keepUnknown, dir |-> UnknownDir]
    ELSE IF ~YearMonthParses(year_month)
    THEN [route |-> "invalid", save |-> keepUnknown, dir |-> UnknownDir]
    ELSE [route |-> "month", save |-> TRUE, dir |-> MonthDir(year_month)]

(***************************************************************************)
(* The files of the model.  A source entry is [name, type, children, p, v]: *)
(* its name, "file" or "dir", the names inside a directory, and what the   *)
(* image library (p) and exiftool (v) do with the file.                    *)
(***************************************************************************)
NoPhotoTags == [tag \in PhotoTagNames |-> Absent]

NoGps == [id \in 1..4 |-> Absent]

PlainPhoto ==
    [open |-> "", getexif |-> "", tags |-> NoPhotoTags, hasGps |-> FALSE,
     get_ifd |-> "", gps |-> NoGps, exit |-> ""]

PlainVideo ==
    [helper |-> "", eeExc |-> "", eeList |-> FALSE, eeTags |-> NoVideoTags,
     plainExc |-> "", plainList |-> FALSE, plainTags |-> NoVideoTags, exit |-> ""]

\* date strings
Date_2023_05_15 ==
    <<"2", "0", "2", "3", ":", "0", "5", ":", "1", "5", " ", "1", "0", ":", "0", "0", ":", "0", "0">>

Date_2023_06_10 ==
    <<"2", "0", "2", "3", ":", "0", "6", ":", "1", "0", " ", "0", "8", ":", "3", "0", ":", "0", "0">>

Date_0005_12_01 ==
    <<"0", "0", "0", "5", ":", "1", "2", ":", "0", "1", " ", "0", "0", ":", "0", "0", ":", "0", "0">>

Date_2023_05_20 ==
    <<"2", "0", "2", "3", ":", "0", "5", ":", "2", "0", " ", "2", "3", ":", "5", "9", ":", "5", "9">>

Date_Iso_2023_05_15_Tz ==
    <<"2", "0", "2", "3", "-", "0", "5", "-", "1", "5", "T", "1", "0", ":", "0", "0", ":", "0", "0",
      "-", "0", "7", ":", "0", "0">>

Date_Bad == <<"n", "o", "t", " ", "a", " ", "d", "a", "t", "e">>

Coords_SF ==
    <<"3", "7", ".", "7", "7", "4", "9", " ", "-", "1", "2", "2", ".", "4", "1", "9", "4", " ",
      "1", "0", "0", ".", "0">>

Dms_37_46_26 == <<"3", "7", " ", "d", "e", "g", " ", "4", "6", "'", " ", "2", "6", ".", "3", "0", "\"">>

Dms_122_25_9 == <<"1", "2", "2", " ", "d", "e", "g", " ", "2", "5", "'", " ", "9", ".", "8", "4", "\"">>

Canon == <<"C", "a", "n", "o", "n">>

\* the photo files of the model: what the image library does with each
PhotoSpecimens ==
    { \* Image.open raises: not an image
      [PlainPhoto EXCEPT !.open = "OSError"],
      \* an image without EXIF data
      PlainPhoto,
      \* conflicting dates, camera tags and a GPS block in the southern hemisphere
      [PlainPhoto EXCEPT
         !.tags = [NoPhotoTags EXCEPT !["DateTimeOriginal"] = StrV(Date_2023_05_15),
                                      !["DateTimeDigitized"] = StrV(Date_2023_06_10),
                                      !["Make"] = StrV(Canon),
                                      !["Model"] = IntV(5)],
         !.hasGps = TRUE,
         !.gps = [NoGps EXCEPT ![1] = StrV(<<"S">>), ![2] = DmsV(<<3700, 4600, 2630>>),
                               ![4] = DmsV(<<12200, 2500, 984>>)]],
      \* an unparseable preferred date, a later field that parses, a GPS
      \* block with a malformed latitude
      [PlainPhoto EXCEPT
         !.tags = [NoPhotoTags EXCEPT !["DateTimeOriginal"] = StrV(Date_Bad),
                                      !["DateTime"] = StrV(Date_2023_06_10)],
         !.hasGps = TRUE,
         !.gps = [NoGps EXCEPT ![2] = DmsV(<<3700>>), ![4] = DmsV(<<12200, 2500, 984>>)]],
      \* a date in the year 5
      [PlainPhoto EXCEPT
         !.tags = [NoPhotoTags EXCEPT !["DateTime"] = StrV(Date_0005_12_01),
                                      !["Software"] = StrV(Canon)]],
      \* a date, and a GPS block that get_ifd cannot read
      [PlainPhoto EXCEPT
         !.tags = [NoPhotoTags EXCEPT !["DateTimeOriginal"] = StrV(Date_2023_05_20),
                                      !["Make"] = StrV(Canon)],
         !.hasGps = TRUE,
         !.get_ifd = "OSError"] }

\* the video files of the model: what exiftool does with each
VideoSpecimens ==
    { \* ExifToolHelper() raises: exiftool is not installed
      [PlainVideo EXCEPT !.helper = "OSError"],
      \* both invocations return an empty list
      PlainVideo,
      \* the -ee invocation returns QuickTime tags
      [PlainVideo EXCEPT
         !.eeList = TRUE,
         !.eeTags = [NoVideoTags EXCEPT
                       !["QuickTime:CreationDate"] = StrV(Date_Iso_2023_05_15_Tz),
                       !["CreateDate"] = StrV(Date_2023_06_10),
                       !["QuickTime:GPSCoordinates"] = StrV(Coords_SF),
                       !["QuickTime:Make"] = StrV(Canon)]],
      \* the -ee invocation raises, the plain one returns tags
      [PlainVideo EXCEPT
         !.eeExc = "OSError",
         !.plainList = TRUE,
         !.plainTags = [NoVideoTags EXCEPT
                          !["QuickTime:CreateDate"] = StrV(Date_Bad),
                          !["CreateDate"] = StrV(Date_2023_06_10),
                          !["GPSLatitude"] = StrV(Dms_37_46_26),
                          !["GPSLongitude"] = StrV(Dms_122_25_9),
                          !["GPSLongitudeRef"] = StrV(<<"W">>),
                          !["CreatorTool"] = IntV(7)]],
      \* both invocations raise
      [PlainVideo EXCEPT !.eeExc = "OSError", !.plainExc = "ValueError"],
      \* a date in the year 5
      [PlainVideo EXCEPT
         !.eeList = TRUE,
         !.eeTags = [NoVideoTags EXCEPT !["Keys:CreationDate"] = StrV(Date_0005_12_01)]],
      \* a date, and a make whose string conversion raises
      [PlainVideo EXCEPT
         !.eeList = TRUE,
         !.eeTags = [NoVideoTags EXCEPT !["CreateDate"] = StrV(Date_2023_05_20),
                                        !["Make"] = BadStrV("ValueError")]] }

PhotoNames == { <<"a", ".", "j", "p", "g">>, <<"B", ".", "J", "P", "e", "G">>, <<"c", ".", "h", "e", "i", "c">> }

VideoNames == { <<"v", ".", "m", "o", "v">>, <<"W", ".", "M", "P", "4">>, <<"x", ".", "m", "p", "4">> }

File(name, p, v) == [name |-> name, type |-> "file", children |-> {}, p |-> p, v |-> v]

Dir(name, children) ==
    [name |-> name, type |-> "dir", children |-> children, p |-> PlainPhoto, v |-> PlainVideo]

\* entries neither reader may return: another extension, no extension, a
\* name that is only an extension, directories named like media files (with
\* a media file inside)
OtherEntries ==
    { File(<<"n", ".", "t", "x", "t">>, PlainPhoto, PlainVideo),
      File(<<"j", "p", "g">>, PlainPhoto, PlainVideo),
      File(<<".", "j", "p", "g">>, PlainPhoto, PlainVideo),
      File(<<".", "m", "p", "4">>, PlainPhoto, PlainVideo),
      Dir(<<"d", ".", "p", "n", "g">>, { <<"i", ".", "j", "p", "g">> }),
      Dir(<<"d", ".", "m", "o", "v">>, { <<"i", ".", "m", "o", "v">> }) }

\* the name each specimen is stored under: two specimens share each name,
\* no directory holds both
PhotoNameOf(p) ==
    IF p.open /= "" \/ p.tags["DateTimeOriginal"] = StrV(Date_2023_05_15)
    THEN <<"a", ".", "j", "p", "g">>
    ELSE IF p = PlainPhoto \/ p.tags["DateTime"] = StrV(Date_0005_12_01)
         THEN <<"B", ".", "J", "P", "e", "G">>
         ELSE <<"c", ".", "h", "e", "i", "c">>

VideoNameOf(v) ==
    IF v.helper /= "" \/ v.eeTags["CreateDate"] = StrV(Date_2023_06_10)
    THEN <<"v", ".", "m", "o", "v">>
    ELSE IF v = PlainVideo \/ v.plainExc /= "" \/ v.eeTags["Make"] /= Absent
         THEN <<"W", ".", "M", "P", "4">>
         ELSE <<"x", ".", "m", "p", "4">>

PhotoFiles == {File(PhotoNameOf(p), p, PlainVideo) : p \in PhotoSpecimens}

VideoFiles == {File(VideoNameOf(v), PlainPhoto, v) : v \in VideoSpecimens}

\* the subsets of S with at most k elements
RECURSIVE UpTo(_, _)
UpTo(S, k) ==
    IF k = 0 THEN {{}}
    ELSE UpTo(S, k - 1) \cup {T \cup {x} : T \in UpTo(S, k - 1), x \in S}

\* the names of a directory are distinct
DistinctNames(entries) ==
    \A e1, e2 \in entries : e1.name = e2.name => e1 = e2

\* the files of the other kind, which a reader must leave alone
OtherKindFiles(k) ==
    {File(n, PlainPhoto, PlainVideo) : n \in (IF k = "photo" THEN VideoNames ELSE PhotoNames)}

\* the source directories of the model for a run of the given kind: at most
\* MaxFiles files of the kind, at most noise other entries
SourceDirs(k, noise) ==
    {m \cup o : m \in {s \in UpTo(IF k = "photo" THEN PhotoFiles ELSE VideoFiles, MaxFiles) :
                         DistinctNames(s)},
                o \in UpTo(OtherEntries \cup OtherKindFiles(k), noise)}

(***************************************************************************)
(* The destination tree.  dirs holds the directories that exist, as paths  *)
(* below destination_dir (<<>> is destination_dir itself); files the loose *)
(* files, [dir, name, from] with from "old" for a file that was there      *)
(* before the run and "run" for one the run copied; zips the directories   *)
(* holding the run's archive (photos.zip or videos.zip) and zipped the     *)
(* archives' entries, [dir, name].                                         *)
(***************************************************************************)
Month_2023_05 ==
    << <<"y", "e", "a", "r", "=", "2", "0", "2", "3">>, <<"m", "o", "n", "t", "h", "=", "0", "5">> >>

OldPhoto == <<"o", ".", "J", "P", "G">>

OldVideo == <<"o", ".", "m", "o", "v">>

OldNotes == <<"n", ".", "t", "x", "t">>

EmptyTree == [dirs |-> {}, files |-> {}, zips |-> {}, zipped |-> {}]

\* a destination left by earlier runs: loose photos, videos and other files
\* and an archive, in unknown and in a month directory; one old file bears
\* the name of a source file
UsedTree ==
    [dirs   |-> {<<>>, <<UNKNOWN_DIRECTORY>>, <<Month_2023_05[1]>>, Month_2023_05},
     files  |-> {[dir |-> d, name |-> n, from |-> "old"] :
                    d \in {<<UNKNOWN_DIRECTORY>>, Month_2023_05},
                    n \in {OldPhoto, OldVideo, OldNotes, <<"a", ".", "j", "p", "g">>}},
     zips   |-> {<<UNKNOWN_DIRECTORY>>, Month_2023_05},
     zipped |-> {[dir |-> d, name |-> <<"z", ".", "j", "p", "g">>] :
                    d \in {<<UNKNOWN_DIRECTORY>>, Month_2023_05}}]

DestinationTrees == {EmptyTree, UsedTree}

\* the directories mkdir(parents=True, exist_ok=True) makes exist
Prefixes(path) == {SubSeq(path, 1, k) : k \in 0..Len(path)}

Mkdir(tree, path) == [tree EXCEPT !.dirs = @ \cup Prefixes(path)]

\* shutil.copy2(src, dir / name): the file exists in dir afterwards, in place
\* of any file of that name
WriteFile(tree, dir, name) ==
    [tree EXCEPT !.files = {f \in @ : ~(f.dir = dir /\ f.name = name)}
                           \cup {[dir |-> dir, name |-> name, from |-> "run"]}]

\* the names of the loose files of a directory
LooseNames(tree, dir) == {f.name : f \in {g \in tree.files : g.dir = dir}}

Extensions(k) == IF k = "photo" THEN PHOTO_EXTENSIONS ELSE VIDEO_EXTENSIONS

ArchiveFilename(k) == IF k = "photo" THEN PHOTO_ARCHIVE_FILENAME ELSE VIDEO_ARCHIVE_FILENAME

\* path.suffix.lower() in PHOTO_EXTENSIONS / VIDEO_EXTENSIONS
HasMediaSuffix(name, k) == LowerStr(Suffix(name)) \in Extensions(k)

\* the archive's listing with the suffix compared as it is spelled
ArchiveListingCaseSensitive(tree, dir, k) ==
    {n \in LooseNames(tree, dir) : Suffix(n) \in Extensions(k)}

\* the iterdir() filter of archive_photos / archive_videos: the names of the
\* loose files of dir with a media suffix (every loose file of the model is
\* a regular file)
ArchiveListing(tree, dir, k) == {n \in LooseNames(tree, dir) : HasMediaSuffix(n, k)}

\* the bucket keys a patched bucket_photos / bucket_videos returns in the
\* tests of offload_photos / offload_videos
InvalidFormatKey ==
    <<"i", "n", "v", "a", "l", "i", "d", "-", "f", "o", "r", "m", "a", "t">>

PatchedKeys ==
    { InvalidFormatKey,
      UNKNOWN_BUCKET_KEY,
      <<"2", "0", "2", "3">>,
      <<"2", "0", "2", "3", "-", "0", "5", "-", "1", "5">>,
      <<"2", "0", "2", "3", "-", "6">> }

(***************************************************************************)
(* The state of one offload run.                                           *)
(***************************************************************************)
VARIABLES
    kind,          \* "photo" (offload_photos) or "video" (offload_videos)
    to_archive,    \* the to_archive argument
    keep_unknown,  \* the keep_unknown argument
    patched,       \* bucket_photos / bucket_videos is patched, as in the tests
    srcType,       \* the source path: "missing", "file" or "dir"
    srcEntries,    \* the entries of the source directory
    srcAt,         \* the leaf directory of the destination tree the source
                   \* directory is, if it is one
    dest,          \* the destination tree
    dest0,         \* the destination tree before the run
    pc,            \* where the run is
    visited,       \* the names the iterdir() loop of the reader has seen
    records,       \* the list the reader builds
    buckets,       \* the dict of buckets, in insertion order
    bi,            \* the index of the bucket the dispatch loop is at
    ci,            \* the index of the record the copy loop is at
    curDir,        \* the directory the current bucket is saved to
    unknown_count,         \* offload_*'s counter of records without a date
    invalid_format_count,  \* offload_*'s counter of records with an invalid key
    error,         \* the exception that ended the run
    events,        \* the run's extractions and file operations, and the files
                   \* another process creates, in order
    looseAtArchive, \* the loose files of curDir when its copy step ended
    call           \* the function applied on its own, with its argument and result

vars ==
    <<call, srcAt, kind, to_archive, keep_unknown, patched, srcType, srcEntries, dest, dest0, pc,
      visited, records, buckets, bi, ci, curDir, unknown_count, invalid_format_count,
      error, events, looseAtArchive>>

NoError == [type |-> "", what |-> "", path |-> <<>>, dir |-> <<>>]

Event(op, dir, name, ok) == [op |-> op, dir |-> dir, name |-> name, ok |-> ok]

\* no function has been applied on its own
NoCall == [fn |-> "", arg |-> <<>>, out |-> <<>>]

\* the files of the source directory, as loose files of the leaf dir
SourceFilesAt(dir, entries) ==
    {[dir |-> dir, name |-> e.name, from |-> "source"] : e \in {x \in entries : x.type = "file"}}

\* the destination trees of a run whose source directory is place: any tree
\* for a source outside the destination, and for a source that is a leaf
\* directory of the destination the tree that holds the source's files there
TreesAround(place, entries) ==
    IF IsNone(place) THEN DestinationTrees
    ELSE {[EmptyTree EXCEPT !.dirs = Prefixes(Val(place)),
                            !.files = SourceFilesAt(Val(place), entries)]}

InitWith(patchedValues, noise, places) ==
    /\ kind \in {"photo", "video"}
    /\ to_archive \in BOOLEAN
    /\ keep_unknown \in BOOLEAN
    /\ patched \in patchedValues
    /\ srcType \in {"missing", "file", "dir"}
    /\ srcEntries \in (IF srcType = "dir" THEN SourceDirs(kind, noise) ELSE {{}})
    /\ srcAt \in (IF srcType = "dir" THEN places ELSE {None})
    /\ dest \in TreesAround(srcAt, srcEntries)
    /\ dest0 = dest
    /\ pc = "start"
    /\ visited = {}
    /\ records = <<>>
    /\ buckets = <<>>
    /\ bi = 1
    /\ ci = 1
    /\ curDir = <<>>
    /\ unknown_count = 0
    /\ invalid_format_count = 0
    /\ error = NoError
    /\ events = <<>>
    /\ looseAtArchive = {}
    /\ call = NoCall

\* the program: bucketing is the program's own
Init == InitWith({FALSE}, MaxNoise, {None})

\* the program as the tests of the dispatch drive it: bucket_photos /
\* bucket_videos is replaced by a stub that returns keys of its choice
InitPatched == InitWith({TRUE}, 0, {None})

(***************************************************************************)
(* The run: offload_photos / offload_videos, step by step.                 *)
(***************************************************************************)
\* _extract_metadata of the run's offloader on a source entry
ExtractMetadata(k, e) ==
    IF k = "photo" THEN PhotoExtractMetadata(e.name, e.p)
    ELSE VideoExtractMetadata(e.name, e.v)

\* the filter without is_file()
IsMediaEntry(e, k) == HasMediaSuffix(e.name, k)

\* the filter of the iterdir() loop of read_photos / read_videos
IsMediaFile(e, k) == e.type = "file" /\ HasMediaSuffix(e.name, k)

\* the entries iterdir() yields: the direct children of the source directory
Listed(entries) == entries

\* the validation made after the destination directory
ValidateSourceAfterMkdir ==
    /\ pc = "start"
    /\ dest' = Mkdir(dest, <<>>)
    /\ events' = Append(events, Event("mkdir", <<>>, <<>>, TRUE))
    /\ IF srcType = "dir"
       THEN /\ pc' = "reading"
            /\ error' = error
       ELSE /\ pc' = "failed"
            /\ error' = [type |-> "ValueError", what |-> "source", path |-> <<>>, dir |-> <<>>]
    /\ UNCHANGED <<call, srcAt, kind, to_archive, keep_unknown, patched, srcType, srcEntries,
                   dest0, visited, records, buckets, bi, ci, curDir, unknown_count,
                   invalid_format_count, looseAtArchive>>

\* read_photos / read_videos: the validation of the source path.  A path
\* that does not exist or is no directory raises ValueError, which leaves
\* offload_photos / offload_videos.
ValidateSource ==
    /\ pc = "start"
    /\ IF srcType = "dir"
       THEN /\ pc' = "reading"
            /\ error' = error
       ELSE /\ pc' = "failed"
            /\ error' = [type |-> "ValueError", what |-> "source", path |-> <<>>, dir |-> <<>>]
    /\ UNCHANGED <<call, srcAt, kind, to_archive, keep_unknown, patched, srcType, srcEntries, dest,
                   dest0, visited, records, buckets, bi, ci, curDir, unknown_count,
                   invalid_format_count, events, looseAtArchive>>

\* the loop's body on a media file: the record is appended, or the
\* exception that left _extract_metadata leaves read_* and offload_*
Extracted(e, r) ==
    /\ events' = Append(events, Event("extract", <<>>, e.name, r.exc = ""))
    /\ IF r.exc = ""
       THEN /\ records' = Append(records, r.rec)
            /\ UNCHANGED <<pc, error>>
       ELSE /\ pc' = "failed"
            /\ error' = [type |-> r.exc, what |-> "extract", path |-> e.name, dir |-> <<>>]
            /\ UNCHANGED records

\* read_photos / read_videos: one iteration of the iterdir() loop, in the
\* order the file system yields the entries
ReadEntry ==
    /\ pc = "reading"
    /\ \E e \in Listed(srcEntries) :
         /\ e.name \notin visited
         /\ visited' = visited \cup {e.name}
         /\ IF IsMediaFile(e, kind)
            THEN Extracted(e, ExtractMetadata(kind, e))
            ELSE UNCHANGED <<records, pc, error, events>>
    /\ UNCHANGED <<call, srcAt, kind, to_archive, keep_unknown, patched, srcType, srcEntries, dest,
                   dest0, buckets, bi, ci, curDir, unknown_count, invalid_format_count,
                   looseAtArchive>>

\* a reader that hands over its records once it has seen one entry
EndReadAfterFirst ==
    /\ pc = "reading"
    /\ visited /= {} \/ srcEntries = {}
    /\ pc' = "bucketing"
    /\ UNCHANGED <<call, srcAt, kind, to_archive, keep_unknown, patched, srcType, srcEntries, dest,
                   dest0, visited, records, buckets, bi, ci, curDir, unknown_count,
                   invalid_format_count, error, events, looseAtArchive>>

\* read_photos / read_videos returns: the loop has seen every entry
EndRead ==
    /\ pc = "reading"
    /\ \A e \in Listed(srcEntries) : e.name \in visited
    /\ pc' = "bucketing"
    /\ UNCHANGED <<call, srcAt, kind, to_archive, keep_unknown, patched, srcType, srcEntries, dest,
                   dest0, visited, records, buckets, bi, ci, curDir, unknown_count,
                   invalid_format_count, error, events, looseAtArchive>>

\* the keys the bucketing gives the records: the program's, or any the stub
\* of the tests may return
BucketKeyChoices ==
    IF patched THEN [1..Len(records) -> PatchedKeys]
    ELSE {[i \in 1..Len(records) |-> YearMonthKey(records[i])]}

\* offload_*: buckets = bucket_*(records, GroupBy.YEAR_MONTH), then
\* dest_path.mkdir(parents=True, exist_ok=True)
Bucket ==
    /\ pc = "bucketing"
    /\ \E keyOf \in BucketKeyChoices : buckets' = BucketFrom(records, keyOf, 1, <<>>)
    /\ dest' = Mkdir(dest, <<>>)
    /\ events' = Append(events, Event("mkdir", <<>>, <<>>, TRUE))
    /\ bi' = 1
    /\ pc' = "dispatch"
    /\ UNCHANGED <<call, srcAt, kind, to_archive, keep_unknown, patched, srcType, srcEntries, dest0,
                   visited, records, ci, curDir, unknown_count, invalid_format_count,
                   error, looseAtArchive>>

\* offload_*: one iteration of the loop over buckets.items(), up to the call
\* of copy_photos / copy_videos: the counters, and for a bucket that is
\* saved the mkdir of _save_* and of copy_*; a bucket that is skipped is
\* only logged
DispatchBucket ==
    /\ pc = "dispatch"
    /\ bi <= Len(buckets)
    /\ LET b == buckets[bi]
           d == Dispatch(b.key, keep_unknown)
       IN  /\ unknown_count' = unknown_count + (IF d.route = "unknown" THEN Len(b.items) ELSE 0)
           /\ invalid_format_count' =
                  invalid_format_count + (IF d.route = "invalid" THEN Len(b.items) ELSE 0)
           /\ IF d.save
              THEN /\ dest' = Mkdir(dest, d.dir)
                   /\ events' = Append(events, Event("mkdir", d.dir, <<>>, TRUE))
                   /\ curDir' = d.dir
                   /\ ci' = 1
                   /\ pc' = "copying"
                   /\ bi' = bi
              ELSE /\ bi' = bi + 1
                   /\ UNCHANGED <<dest, events, curDir, ci, pc>>
    /\ UNCHANGED <<call, srcAt, kind, to_archive, keep_unknown, patched, srcType, srcEntries, dest0,
                   visited, records, buckets, error, looseAtArchive>>

\* a copy2 that does not compare source and target
SameFileUnnoticed(dir) == FALSE

\* shutil.copy2(photo.path, dest_path / photo.path.name) finds source and
\* target to be the same file and raises SameFileError before it writes:
\* the records' paths lie in the source directory, so the target of a copy
\* into dir is its own source when dir is the source directory
SameFile(dir) == srcAt = Some(dir)

\* copy_photos / copy_videos: shutil.copy2 of one record succeeds
CopyFile ==
    /\ pc = "copying"
    /\ ci <= Len(buckets[bi].items)
    /\ ~SameFile(curDir)
    /\ LET name == buckets[bi].items[ci].path
       IN  /\ dest' = WriteFile(dest, curDir, name)
           /\ events' = Append(events, Event("copy", curDir, name, TRUE))
    /\ ci' = ci + 1
    /\ UNCHANGED <<call, srcAt, kind, to_archive, keep_unknown, patched, srcType, srcEntries, dest0, pc,
                   visited, records, buckets, bi, curDir, unknown_count,
                   invalid_format_count, error, looseAtArchive>>

\* a copy loop that logs the failure and goes on to the next file
CopyFileFailsAndContinues ==
    /\ pc = "copying"
    /\ ci <= Len(buckets[bi].items)
    /\ events' = Append(events, Event("copy", curDir, buckets[bi].items[ci].path, FALSE))
    /\ ci' = ci + 1
    /\ UNCHANGED <<call, srcAt, kind, to_archive, keep_unknown, patched, srcType, srcEntries, dest, dest0,
                   pc, visited, records, buckets, bi, curDir, unknown_count,
                   invalid_format_count, error, looseAtArchive>>

\* copy_photos / copy_videos: shutil.copy2 of one record raises, before or
\* after the file's data reached the destination, and before when source
\* and target are the same file; the except clause raises RuntimeError,
\* which leaves offload_*
CopyFileFails ==
    /\ pc = "copying"
    /\ ci <= Len(buckets[bi].items)
    /\ LET name == buckets[bi].items[ci].path
       IN  /\ \E written \in (IF SameFile(curDir) THEN {FALSE} ELSE BOOLEAN) :
                dest' = IF written THEN WriteFile(dest, curDir, name) ELSE dest
           /\ events' = Append(events, Event("copy", curDir, name, FALSE))
           /\ error' = [type |-> "RuntimeError", what |-> "copy", path |-> name, dir |-> curDir]
    /\ pc' = "failed"
    /\ UNCHANGED <<call, srcAt, kind, to_archive, keep_unknown, patched, srcType, srcEntries, dest0,
                   visited, records, buckets, bi, ci, curDir, unknown_count,
                   invalid_format_count, looseAtArchive>>

\* copy_* returns: to the loop of offload_* in copy mode, to the rest of
\* archive_* in archive mode
EndCopy ==
    /\ pc = "copying"
    /\ ci > Len(buckets[bi].items)
    /\ looseAtArchive' = LooseNames(dest, curDir)
    /\ IF to_archive
       THEN /\ pc' = "archiving"
            /\ bi' = bi
       ELSE /\ pc' = "dispatch"
            /\ bi' = bi + 1
    /\ UNCHANGED <<call, srcAt, kind, to_archive, keep_unknown, patched, srcType, srcEntries, dest,
                   dest0, visited, records, buckets, ci, curDir, unknown_count,
                   invalid_format_count, error, events>>

\* an archive opened for appending: the entries of the earlier archive stay
WithArchiveAppended(tree, dir, names) ==
    [tree EXCEPT !.zips = @ \cup {dir},
                 !.zipped = @ \cup {[dir |-> dir, name |-> n] : n \in names}]

\* the archive of dir holds exactly the given names
WithArchive(tree, dir, names) ==
    [tree EXCEPT !.zips = @ \cup {dir},
                 !.zipped = {z \in @ : z.dir /= dir} \cup {[dir |-> dir, name |-> n] : n \in names}]

\* archive_*: ZipFile(zip_path, 'w') and the first iterdir() loop, which
\* writes every listed file into the archive
ArchiveWrite ==
    /\ pc = "archiving"
    /\ dest' = WithArchive(dest, curDir, ArchiveListing(dest, curDir, kind))
    /\ events' = Append(events, Event("zip", curDir, ArchiveFilename(kind), TRUE))
    /\ pc' = "removing"
    /\ UNCHANGED <<call, srcAt, kind, to_archive, keep_unknown, patched, srcType, srcEntries, dest0,
                   visited, records, buckets, bi, ci, curDir, unknown_count,
                   invalid_format_count, error, looseAtArchive>>

\* a failure handler that removes the copies of the bucket
ArchiveWriteFailsRollingBack ==
    /\ pc = "archiving"
    /\ dest' = [dest EXCEPT !.files = {f \in @ : ~(f.dir = curDir /\ f.from = "run")}]
    /\ events' = Append(events, Event("zip", curDir, ArchiveFilename(kind), FALSE))
    /\ error' = [type |-> "RuntimeError", what |-> "archive",
                 path |-> ArchiveFilename(kind), dir |-> curDir]
    /\ pc' = "failed"
    /\ UNCHANGED <<call, srcAt, kind, to_archive, keep_unknown, patched, srcType, srcEntries, dest0,
                   visited, records, buckets, bi, ci, curDir, unknown_count,
                   invalid_format_count, looseAtArchive>>

\* archive_*: creating the archive raises, in ZipFile() (no archive is
\* opened) or while writing (the archive holds the files written so far);
\* the except clause raises RuntimeError, which leaves offload_*
ArchiveWriteFails ==
    /\ pc = "archiving"
    /\ \E opened \in BOOLEAN :
         \E done \in SUBSET ArchiveListing(dest, curDir, kind) :
            /\ opened \/ done = {}
            /\ dest' = IF opened THEN WithArchive(dest, curDir, done) ELSE dest
    /\ events' = Append(events, Event("zip", curDir, ArchiveFilename(kind), FALSE))
    /\ error' = [type |-> "RuntimeError", what |-> "archive",
                 path |-> ArchiveFilename(kind), dir |-> curDir]
    /\ pc' = "failed"
    /\ UNCHANGED <<call, srcAt, kind, to_archive, keep_unknown, patched, srcType, srcEntries, dest0,
                   visited, records, buckets, bi, ci, curDir, unknown_count,
                   invalid_format_count, looseAtArchive>>

\* a second loop that unlinks every file of dir
UnlinkedAll(tree, dir, names) ==
    [tree EXCEPT !.files = {f \in @ : f.dir /= dir}]

\* the loose files of dir with the given names are gone
Unlinked(tree, dir, names) ==
    [tree EXCEPT !.files = {f \in @ : ~(f.dir = dir /\ f.name \in names)}]

\* archive_*: the second iterdir() loop, which unlinks every listed file
ArchiveRemove ==
    /\ pc = "removing"
    /\ dest' = Unlinked(dest, curDir, ArchiveListing(dest, curDir, kind))
    /\ events' = Append(events, Event("unlink", curDir, <<>>, TRUE))
    /\ pc' = "dispatch"
    /\ bi' = bi + 1
    /\ UNCHANGED <<call, srcAt, kind, to_archive, keep_unknown, patched, srcType, srcEntries, dest0,
                   visited, records, buckets, ci, curDir, unknown_count,
                   invalid_format_count, error, looseAtArchive>>

\* archive_*: an unlink of the second loop raises after some files were
\* removed; the same except clause raises RuntimeError
ArchiveRemoveFails ==
    /\ pc = "removing"
    /\ \E gone \in SUBSET ArchiveListing(dest, curDir, kind) :
         /\ gone /= ArchiveListing(dest, curDir, kind)
         /\ dest' = Unlinked(dest, curDir, gone)
    /\ events' = Append(events, Event("unlink", curDir, <<>>, FALSE))
    /\ error' = [type |-> "RuntimeError", what |-> "archive",
                 path |-> ArchiveFilename(kind), dir |-> curDir]
    /\ pc' = "failed"
    /\ UNCHANGED <<call, srcAt, kind, to_archive, keep_unknown, patched, srcType, srcEntries, dest0,
                   visited, records, buckets, bi, ci, curDir, unknown_count,
                   invalid_format_count, looseAtArchive>>

\* offload_* returns: the loop over the buckets is over
Finish ==
    /\ pc = "dispatch"
    /\ bi > Len(buckets)
    /\ pc' = "done"
    /\ UNCHANGED <<call, srcAt, kind, to_archive, keep_unknown, patched, srcType, srcEntries, dest,
                   dest0, visited, records, buckets, bi, ci, curDir, unknown_count,
                   invalid_format_count, error, events, looseAtArchive>>

Next ==
    \/ ValidateSource
    \/ ReadEntry
    \/ EndRead
    \/ Bucket
    \/ DispatchBucket
    \/ CopyFile
    \/ CopyFileFails
    \/ EndCopy
    \/ ArchiveWrite
    \/ ArchiveWriteFails
    \/ ArchiveRemove
    \/ ArchiveRemoveFails
    \/ Finish

Spec == Init /\ [][Next]_vars

SpecPatched == InitPatched /\ [][Next]_vars

\* the leaf directories of the destination the source directory may be
SourcePlaces == {None, Some(UnknownDir), Some(Month_2023_05)}

\* the program on a source directory that lies outside the destination or
\* is destination/unknown or destination/year=2023/month=05
InitAliased == InitWith({FALSE}, 0, SourcePlaces)

SpecAliased == InitAliased /\ [][Next]_vars

(***************************************************************************)
(* The run beside another process that writes into the directory being     *)
(* archived.                                                               *)
(***************************************************************************)
\* how many files the other process creates during a run
MaxOtherFiles == 1

\* the names of the files the other process creates: of the run's allow-list
OtherNames(k) == IF k = "photo" THEN {<<"q", ".", "j", "p", "g">>} ELSE {<<"q", ".", "m", "o", "v">>}

\* the files the other process has created, as positions of the log
Created == {i \in 1..Len(events) : events[i].op = "create"}

\* another process creates a file of an allow-listed extension in the
\* directory archive_* works on, at any moment from the copy step to the
\* end of the second iterdir() loop
OtherProcessCreates ==
    /\ pc \in {"copying", "archiving", "removing"}
    /\ Cardinality(Created) < MaxOtherFiles
    /\ \E n \in OtherNames(kind) :
         /\ n \notin LooseNames(dest, curDir)
         /\ dest' = [dest EXCEPT !.files = @ \cup {[dir |-> curDir, name |-> n, from |-> "other"]}]
         /\ events' = Append(events, Event("create", curDir, n, TRUE))
    /\ UNCHANGED <<call, srcAt, kind, to_archive, keep_unknown, patched, srcType, srcEntries, dest0, pc,
                   visited, records, buckets, bi, ci, curDir, unknown_count,
                   invalid_format_count, error, looseAtArchive>>

NextConcurrent ==
    \/ Next
    \/ OtherProcessCreates

\* the program on a source directory of media files only
InitConcurrent == InitWith({FALSE}, 0, {None})

SpecConcurrent == InitConcurrent /\ [][NextConcurrent]_vars

(***************************************************************************)
(* The parsers, the converter, the bucketing and the sort applied on their *)
(* own, as the unit tests of the repository apply them: every step applies *)
(* one function to one input and keeps the input and the result in call.   *)
(***************************************************************************)
runVars ==
    <<srcAt, kind, to_archive, keep_unknown, patched, srcType, srcEntries, dest, dest0, pc,
      visited, records, buckets, bi, ci, curDir, unknown_count, invalid_format_count,
      error, events, looseAtArchive>>

\* no run is under way while the functions are applied on their own
InitUnit ==
    /\ call = NoCall
    /\ kind = "photo"
    /\ to_archive = FALSE
    /\ keep_unknown = TRUE
    /\ patched = FALSE
    /\ srcType = "dir"
    /\ srcEntries = {}
    /\ srcAt = None
    /\ dest = EmptyTree
    /\ dest0 = dest
    /\ pc = "unit"
    /\ visited = {}
    /\ records = <<>>
    /\ buckets = <<>>
    /\ bi = 1
    /\ ci = 1
    /\ curDir = <<>>
    /\ unknown_count = 0
    /\ invalid_format_count = 0
    /\ error = NoError
    /\ events = <<>>
    /\ looseAtArchive = {}

\* fn(arg) was called and gave out
Called(fn, arg, out) == [fn |-> fn, arg |-> arg, out |-> out]

\* further date strings of EXIF tags
Date_2024_02_29 == <<"2", "0", "2", "4", ":", "0", "2", ":", "2", "9", " ", "2", "3", ":", "5", "9", ":", "5", "9">>

Date_Feb_30 == <<"2", "0", "2", "3", ":", "0", "2", ":", "3", "0", " ", "1", "0", ":", "0", "0", ":", "0", "0">>

Date_Dashed == <<"2", "0", "2", "3", "-", "0", "5", "-", "1", "5", " ", "1", "0", ":", "0", "0", ":", "0", "0">>

Date_OneDigit == <<"2", "0", "2", "3", ":", "5", ":", "1", " ", "1", ":", "2", ":", "3">>

Date_Trailing == <<"2", "0", "2", "3", ":", "0", "5", ":", "1", "5", " ", "1", "0", ":", "0", "0", ":", "0", "0", "Z">>

Date_NoSeconds == <<"2", "0", "2", "3", ":", "0", "5", ":", "1", "5", " ", "1", "0", ":", "0", "0">>

\* the values a date tag of the EXIF mapping holds in the model: no value,
\* strings that parse, strings that do not, a number
ExifDateValues ==
    { Absent, StrV(Date_2023_05_15), StrV(Date_2023_06_10), StrV(Date_0005_12_01),
      StrV(Date_2024_02_29), StrV(Date_OneDigit), StrV(Date_Bad), StrV(Date_Feb_30),
      StrV(Date_Dashed), StrV(Date_Trailing), StrV(Date_NoSeconds), IntV(20230515) }

ExifDateDicts ==
    { [NoPhotoTags EXCEPT !["DateTimeOriginal"] = a, !["DateTimeDigitized"] = b,
                          !["DateTime"] = c] : a, b, c \in ExifDateValues }

\* PhotoOffloader._parse_exif_date(exif_dict) is called
CallParseExifDate ==
    /\ pc = "unit"
    /\ call.fn = ""
    /\ \E exif_dict \in ExifDateDicts :
          call' = Called("_parse_exif_date", exif_dict, ParseExifDate(exif_dict))
    /\ UNCHANGED runVars

\* The call _extract_metadata(file_path, **keywords) of a video: the method
\* takes file_path and nothing else, so a call that names another parameter
\* raises TypeError before the body runs.
VideoExtractMetadataCall(path, v, keywords) ==
    IF keywords /= {} THEN [exc |-> "TypeError", rec |-> Metadata(path, NoFields)]
    ELSE VideoExtractMetadata(path, v)

\* what stat() gives for a file: fails (it raises OSError), the birth time
\* where the platform has one, the modification time
FileStats ==
    { [fails |-> TRUE, birthtime |-> None,
       mtime |-> [StrptimeDefaults EXCEPT !.year = 2024, !.month = 3, !.day = 9]],
      [fails |-> FALSE,
       birthtime |-> Some([StrptimeDefaults EXCEPT !.year = 2022, !.month = 11, !.day = 30]),
       mtime |-> [StrptimeDefaults EXCEPT !.year = 2024, !.month = 3, !.day = 9]],
      [fails |-> FALSE, birthtime |-> None,
       mtime |-> [StrptimeDefaults EXCEPT !.year = 2024, !.month = 3, !.day = 9]] }

\* VideoOffloader._extract_metadata is called on a file, as the program
\* calls it or with use_file_date=True as the tests call it
CallVideoExtractMetadata ==
    /\ pc = "unit"
    /\ call.fn = ""
    /\ \E v \in VideoSpecimens, stat \in FileStats, keywords \in {{}, {"use_file_date"}} :
          call' = Called("_extract_metadata",
                         [path |-> VideoNameOf(v), v |-> v, stat |-> stat, keywords |-> keywords],
                         VideoExtractMetadataCall(VideoNameOf(v), v, keywords))
    /\ UNCHANGED runVars

\* the largest number of date tags a tag dictionary of the model holds
MaxDateFields == 2

\* further date strings of video tags
Date_Iso_2023_06_10 == <<"2", "0", "2", "3", "-", "0", "6", "-", "1", "0", "T", "0", "8", ":", "3", "0", ":", "0", "0">>

Date_Only_2024_08_04 == <<"2", "0", "2", "4", ":", "0", "8", ":", "0", "4">>

\* the values a date tag of exiftool's dictionary holds in the model:
\* strings in three of the notations, a string that is no date, and objects
\* whose string conversion raises
VideoDateValues ==
    { StrV(Date_2023_05_15), StrV(Date_Iso_2023_06_10), StrV(Date_Only_2024_08_04),
      StrV(Date_Iso_2023_05_15_Tz), StrV(Date_Bad),
      BadStrV("TypeError"), BadStrV("ValueError"), BadStrV("AttributeError") }

\* the tag dictionaries with at most k date tags
RECURSIVE VideoDateDicts(_)
VideoDateDicts(k) ==
    IF k = 0 THEN {NoVideoTags}
    ELSE VideoDateDicts(k - 1)
         \cup { [d EXCEPT ![f] = a] :
                   d \in VideoDateDicts(k - 1), f \in Range(VIDEO_DATE_FIELDS),
                   a \in VideoDateValues }

\* VideoOffloader._parse_date(metadata) is called
CallVideoParseDate ==
    /\ pc = "unit"
    /\ call.fn = ""
    /\ \E metadata \in VideoDateDicts(MaxDateFields) :
          call' = Called("_parse_date", metadata, VideoParseDate(metadata))
    /\ UNCHANGED runVars

\* the text before a timezone offset: a timestamp in each notation, with a
\* fraction, at the end of a year, without seconds, without time, a string
\* that is no date, and a timestamp that carries an offset already
OffsetBases ==
    { <<"2", "0", "2", "4", ":", "0", "8", ":", "0", "4", " ", "1", "1", ":", "4", "5", ":", "2", "6">>, <<"2", "0", "2", "3", "-", "0", "5", "-", "1", "5", "T", "1", "0", ":", "0", "0", ":", "0", "0">>, <<"2", "0", "2", "3", "-", "0", "5", "-", "1", "5", " ", "1", "0", ":", "0", "0", ":", "0", "0">>,
      <<"2", "0", "2", "4", "-", "0", "2", "-", "2", "9", "T", "2", "3", ":", "5", "9", ":", "5", "9", ".", "1", "2", "3", "4", "5", "6">>, <<"2", "0", "2", "3", "-", "1", "2", "-", "3", "1", "T", "2", "3", ":", "3", "0", ":", "0", "0">>, <<"2", "0", "2", "3", ":", "0", "5", ":", "1", "5", " ", "1", "4", ":", "3", "0">>,
      <<"2", "0", "2", "3", "-", "0", "5", "-", "1", "5">>, <<"n", "o", "t", " ", "a", " ", "d", "a", "t", "e">>,
      <<"2", "0", "2", "3", "-", "0", "5", "-", "1", "5", "T", "1", "0", ":", "0", "0", ":", "0", "0", "+", "0", "1", ":", "0", "0">> }

\* timezone offsets
TzOffsets == { <<"-", "0", "7", ":", "0", "0">>, <<"+", "0", "5", ":", "3", "0">>, <<"+", "0", "0", ":", "0", "0">>, <<"-", "2", "3", ":", "5", "9">> }

\* metadata = {'QuickTime:CreationDate': date_str}
DateDict(date_str) == [NoVideoTags EXCEPT !["QuickTime:CreationDate"] = StrV(date_str)]

\* VideoOffloader._parse_date is called on a date string that ends with a
\* timezone offset, and on the string without the offset
CallVideoParseDateWithOffset ==
    /\ pc = "unit"
    /\ call.fn = ""
    /\ \E base \in OffsetBases, tz \in TzOffsets :
          call' = Called("_parse_date with offset", [base |-> base, tz |-> tz],
                         [with |-> VideoParseDate(DateDict(base \o tz)),
                          without |-> VideoParseDate(DateDict(base))])
    /\ UNCHANGED runVars

\* the numbers of the DMS triples of the model, in hundredths: in and out
\* of the range of a coordinate, fractional, negative
DmsDegrees == {0, 3700, 12200, 18000, 20000, 0 - 1000}

DmsMinutes == {0, 4600, 5950, 7500, 0 - 3000}

DmsSeconds == {0, 2630, 5999, 360000, 0 - 100}

\* the references of the model: the four directions, a direction in lower
\* case, another letter, the empty string, a number, None
DmsRefs ==
    { StrV(<<"N">>), StrV(<<"S">>), StrV(<<"E">>), StrV(<<"W">>), StrV(<<"s">>), StrV(<<"X">>), StrV(<<>>),
      IntV(1), Absent }

\* _dms_to_decimal(dms, ref) is called, on each of the three classes
CallDmsToDecimal ==
    /\ pc = "unit"
    /\ call.fn = ""
    /\ \E d \in DmsDegrees, m \in DmsMinutes, s \in DmsSeconds, ref \in DmsRefs :
          call' = Called("_dms_to_decimal", [dms |-> <<d, m, s>>, ref |-> ref],
                         [photo |-> DmsToDecimal(<<d, m, s>>, ref),
                          video |-> VideoDmsToDecimal(<<d, m, s>>, ref),
                          application |-> ApplicationDmsToDecimal(<<d, m, s>>, ref)])
    /\ UNCHANGED runVars

\* datetime(y, mo, d, h, mi, s)
DateTime(y, mo, d, h, mi, s) ==
    [year |-> y, month |-> mo, day |-> d, hour |-> h, minute |-> mi, second |-> s,
     microsecond |-> 0]

\* the longest list of records handed to the bucketing and to the sorting
MaxRecords == 3

\* a record as the extraction returns it
RecordOf(name, date_taken, camera_make, camera_model, software) ==
    [path |-> <<name>>, date_taken |-> date_taken, location |-> None,
     camera_make |-> camera_make, camera_model |-> camera_model, software |-> software]

\* the records of the lists: two of one month, one of another month of the
\* same year, one of the year 5, two without a date; attributes present,
\* absent, in lower case, and one that reads "Unknown"
RecordSpecimens ==
    { RecordOf(<<"a", ".", "j", "p", "g">>, Some(DateTime(2023, 5, 15, 10, 0, 0)), Some(Canon), Some(<<"E", "O", "S", " ", "R", "5">>),
               Some(<<"1", ".", "0">>)),
      RecordOf(<<"b", ".", "j", "p", "g">>, Some(DateTime(2023, 5, 20, 23, 59, 59)), Some(Canon), None, None),
      RecordOf(<<"c", ".", "j", "p", "g">>, Some(DateTime(2023, 12, 1, 0, 0, 0)), Some(<<"a", "p", "p", "l", "e">>), Some(<<"i", "P", "h", "o", "n", "e">>),
               Some(UNKNOWN_BUCKET_KEY)),
      RecordOf(<<"d", ".", "j", "p", "g">>, Some(DateTime(5, 12, 1, 0, 0, 0)), None, Some(<<"E", "O", "S">>), Some(<<>>)),
      RecordOf(<<"e", ".", "j", "p", "g">>, None, None, None, None),
      RecordOf(<<"f", ".", "j", "p", "g">>, None, Some(<<"Z", "e", "i", "s", "s">>), None, Some(<<"i", "O", "S", " ", "1", "7">>)) }

\* the lists of at most n records, with repetitions
RECURSIVE RecordLists(_)
RecordLists(n) ==
    IF n = 0 THEN { <<>> }
    ELSE RecordLists(n - 1)
         \cup { Append(l, r) : l \in {x \in RecordLists(n - 1) : Len(x) = n - 1},
                               r \in RecordSpecimens }

\* bucket_photos / bucket_videos(photos, group_by) is called
CallBucketPhotos ==
    /\ pc = "unit"
    /\ call.fn = ""
    /\ \E photos \in RecordLists(MaxRecords), group_by \in GroupBy :
          call' = Called("bucket_photos", [photos |-> photos, group_by |-> group_by],
                         BucketPhotos(photos, group_by))
    /\ UNCHANGED runVars

\* the dates of the records whose key is asked for: years of one to four
\* digits, months and days of one and two digits
KeyYears == {1, 5, 99, 999, 1000, 2023, 9999}

KeyMonths == {1, 9, 10, 12}

KeyDays == {1, 9, 10, 28}

KeyRecords ==
    { RecordOf(<<"a", ".", "j", "p", "g">>, Some(DateTime(y, mo, d, 10, 0, 0)), Some(Canon), None, Some(<<"1", ".", "0">>)) :
        y \in KeyYears, mo \in KeyMonths, d \in KeyDays }
    \cup { RecordOf(<<"e", ".", "j", "p", "g">>, None, None, None, None) }

\* _get_bucket_key(photo, group_by) is called
CallGetBucketKey ==
    /\ pc = "unit"
    /\ call.fn = ""
    /\ \E photo \in KeyRecords, group_by \in GroupBy :
          call' = Called("_get_bucket_key", [photo |-> photo, group_by |-> group_by],
                         GetBucketKey(photo, group_by))
    /\ UNCHANGED runVars

\* sort_photos / sort_videos(photos, group_by) is called
CallSortPhotos ==
    /\ pc = "unit"
    /\ call.fn = ""
    /\ \E photos \in RecordLists(MaxRecords), group_by \in GroupBy :
          call' = Called("sort_photos", [photos |-> photos, group_by |-> group_by],
                         SortPhotos(photos, group_by))
    /\ UNCHANGED runVars

\* the values of the GPS block of the model: references present, absent
\* and of another type; coordinates as triples, absent, too short, a
\* number, strings with and without digits
GpsLatRefs == {Absent, StrV(<<"N">>), StrV(<<"S">>), IntV(1)}

GpsLats ==
    {Absent, DmsV(<<3700, 4600, 2630>>), DmsV(<<3700, 4600>>), IntV(37), StrV(<<"a", "b", "c">>),
     StrV(<<"1", "2", "3">>)}

GpsLonRefs == {Absent, StrV(<<"E">>), StrV(<<"W">>)}

GpsLons == {Absent, DmsV(<<12200, 2500, 900>>), DmsV(<<>>), StrV(<<"1", "2">>), BadStrV("ValueError")}

\* what get_ifd does: it returns, or raises one of the classes
GetIfdOutcomes == {""} \cup PHOTO_LOCATION_CAUGHT \cup {"OSError"}

\* _parse_exif_location(exif_data, exif_dict) is called
CallParseExifLocation ==
    /\ pc = "unit"
    /\ call.fn = ""
    /\ \E hasGps \in BOOLEAN, get_ifd \in GetIfdOutcomes, lat_ref \in GpsLatRefs,
          lat \in GpsLats, lon_ref \in GpsLonRefs, lon \in GpsLons :
          LET exif == [hasGps |-> hasGps, get_ifd |-> get_ifd,
                       gps |-> <<lat_ref, lat, lon_ref, lon>>]
          IN  call' = Called("_parse_exif_location", exif, ParseExifLocation(exif))
    /\ UNCHANGED runVars

\* tag dictionaries for the two invocations of the probe
TagsOfEmbedded ==
    [NoVideoTags EXCEPT !["QuickTime:CreateDate"] = StrV(Date_2023_05_15),
                        !["QuickTime:Make"] = StrV(Canon)]

TagsOfPlain == [NoVideoTags EXCEPT !["CreateDate"] = StrV(Date_2023_06_10)]

\* the videos the probe is watched on: each invocation raises or returns an
\* empty list, a list holding an empty dictionary, or a list holding tags
ProbedVideos ==
    { [PlainVideo EXCEPT !.eeExc = eeExc, !.eeList = eeList, !.eeTags = eeTags,
                         !.plainExc = plainExc, !.plainList = plainList,
                         !.plainTags = plainTags] :
        eeExc \in {"", "OSError", "ValueError"}, eeList \in BOOLEAN,
        eeTags \in {NoVideoTags, TagsOfEmbedded},
        plainExc \in {"", "OSError"}, plainList \in BOOLEAN,
        plainTags \in {NoVideoTags, TagsOfPlain} }

\* VideoOffloader._extract_metadata is called and the invocations of
\* get_metadata are recorded
CallVideoExtractProbing ==
    /\ pc = "unit"
    /\ call.fn = ""
    /\ \E v \in ProbedVideos :
          call' = Called("_extract_metadata probing", v,
                         [calls |-> VideoProbe(v).calls,
                          exc |-> VideoExtractMetadata(VideoNameOf(v), v).exc,
                          rec |-> VideoExtractMetadata(VideoNameOf(v), v).rec])
    /\ UNCHANGED runVars

\* the argument None in the place of the metadata mapping, kept in the shape
\* of a mapping
NoneMapping ==
    [tag \in VideoTagNames |-> [t |-> "none", s |-> <<>>, n |-> 0, d |-> <<>>, e |-> ""]]

\* _parse_location(metadata) for a mapping or None: 'gps_tag in None'
\* raises TypeError inside the outer try
VideoParseLocationCall(metadata) ==
    IF metadata = NoneMapping THEN LocationCaught(Raise("TypeError"))
    ELSE VideoParseLocation(metadata)

\* the values of the combined tag QuickTime:GPSCoordinates: two numbers and
\* an altitude, one token, no token, tokens that are no numbers, a number,
\* objects whose string conversion raises
CombinedValues ==
    { Absent, StrV(Coords_SF), StrV(<<"i", "n", "v", "a", "l", "i", "d">>), StrV(<<"3", "7", ".", "7", "7", "4", "9">>), StrV(<<"i", "n", "v", "a", "l", "i", "d", " ", "l", "a", "t">>),
      StrV(<<"3", "7", ".", "7", "7", "4", "9", " ", "w", "e", "s", "t">>), StrV(<<>>), IntV(5), BadStrV("ValueError"), BadStrV("IndexError") }

\* the values of the tag Keys:GPSCoordinates
KeysCombinedValues == { Absent, StrV(<<"-", "3", "3", ".", "8", "6", "8", "8", " ", "1", "5", "1", ".", "2", "0", "9", "3">>) }

\* the values of the tag GPSLatitude: in DMS notation, with a hemisphere
\* letter behind it, with seconds that are no number, decimal, no number,
\* an object whose string conversion raises
LatitudeValues ==
    { Absent, StrV(Dms_37_46_26), StrV(<<"3", "7", " ", "d", "e", "g", " ", "4", "6", " ", "2", "6", ".", "3", "0", " ", "N">>), StrV(<<"3", "7", " ", "d", "e", "g", " ", "4", "6", "'", " ", "1", ".", "2", ".", "3">>),
      StrV(<<"3", "7", ".", "7", "7", "4", "9">>), StrV(<<"i", "n", "v", "a", "l", "i", "d">>), BadStrV("TypeError") }

\* the values of the tag GPSLongitude
LongitudeValues ==
    { Absent, StrV(Dms_122_25_9), StrV(<<"-", "1", "2", "2", ".", "4", "1", "9", "4">>), BadStrV("OSError") }

\* the mappings _parse_location is applied to, and None
LocationDicts ==
    { [NoVideoTags EXCEPT !["QuickTime:GPSCoordinates"] = combined,
                          !["Keys:GPSCoordinates"] = keys,
                          !["GPSLatitude"] = lat,
                          !["GPSLongitude"] = lon,
                          !["GPSLatitudeRef"] = lat_ref,
                          !["GPSLongitudeRef"] = lon_ref] :
        combined \in CombinedValues, keys \in KeysCombinedValues, lat \in LatitudeValues,
        lon \in LongitudeValues, lat_ref \in {Absent, StrV(<<"S">>)},
        lon_ref \in {Absent, StrV(<<"W">>)} }
    \cup { NoneMapping }

\* VideoOffloader._parse_location(metadata) is called
CallVideoParseLocation ==
    /\ pc = "unit"
    /\ call.fn = ""
    /\ \E metadata \in LocationDicts :
          call' = Called("_parse_location", metadata, VideoParseLocationCall(metadata))
    /\ UNCHANGED runVars

\* date strings that match none of the full formats
FallbackDateStrings ==
    { <<"2", "0", "2", "4", ":", "0", "8", ":", "0", "4">>, <<"2", "0", "2", "3", "-", "0", "5", "-", "1", "5", "T", "i", "n", "v", "a", "l", "i", "d", "-", "t", "i", "m", "e">>, <<"2", "0", "2", "3", "-", "0", "5", "-", "1", "5", " ", "i", "n", "v", "a", "l", "i", "d", "-", "t", "i", "m", "e">>, <<"2", "0", "2", "3">>,
      <<"2", "0", "2", "3", "-", "0", "5", "-", "1", "5">>, <<"2", "0", "2", "3", ":", "1", "3", ":", "4", "5">>, <<"2", "0", "2", "3", "-", "1", "3", "-", "4", "5">>, <<"2", "0", "2", "3", ":", "0", "5", ":", "1", "5", " ", "1", "4", ":", "3", "0">>, <<"2", "0", "2", "3", "-", "5", "-", "1", "T", "i", "n", "v", "a", "l", "i", "d">>,
      <<"2", "0", "2", "3", ":", "5", ":", "1", " ", "x">>, <<"2", "0", "2", "3", "-", "5", "-", "1">>, <<"2", "0", "2", "3", "-", "0", "5", "-", "1", "5", "x", "y", "z">>, <<"2", "0", "2", "3", "-", "0", "5", "-", "1", "5", "x", "y", "z", "T", "a", "b", "c">>, <<"2", "0", "2", "3", "0", "5", "1", "5", "T", "1", "0", "1", "0", "1", "0">>,
      <<"T", "u", "e", "s", "d", "a", "y">>, <<"2", "0", "2", "3", "-", "0", "2", "-", "3", "0", " ", "1", "0", ":", "0", "0", ":", "0", "0">> }

\* VideoOffloader._parse_date is called on a mapping whose one date field
\* matches none of the full formats
CallVideoParseDateFallback ==
    /\ pc = "unit"
    /\ call.fn = ""
    /\ \E date_str \in FallbackDateStrings :
          call' = Called("_parse_date fallback", date_str, VideoParseDate(DateDict(date_str)))
    /\ UNCHANGED runVars

NextUnit ==
    \/ CallVideoExtractMetadata
    \/ CallParseExifDate
    \/ CallVideoParseDate
    \/ CallVideoParseDateWithOffset
    \/ CallDmsToDecimal
    \/ CallBucketPhotos
    \/ CallGetBucketKey
    \/ CallSortPhotos
    \/ CallParseExifLocation
    \/ CallVideoExtractProbing
    \/ CallVideoParseLocation
    \/ CallVideoParseDateFallback

SpecUnit == InitUnit /\ [][NextUnit]_vars

(***************************************************************************)
(* Properties of the run.                                                  *)
(***************************************************************************)
\* the records read so far
RecordSet == {records[i] : i \in 1..Len(records)}

\* the events of the given operations, as positions of the log
EventsOf(ops) == {j \in 1..Len(events) : events[j].op \in ops}

\* the file the run wrote as dir/name is loose there
WrittenBy(dir, name) == [dir |-> dir, name |-> name, from |-> "run"] \in dest.files

\* the leaf directory of a timestamp: year=<Y> with the year as it is,
\* month=<MM> with two digits
LeafOfDate(d) ==
    <<YEAR_PREFIX \o IntToStr(d.year),
      MONTH_PREFIX \o <<Digits[(d.month \div 10) + 1], Digits[(d.month % 10) + 1]>> >>

\* C1: after a successful offload in copy mode, every record with a date is
\* loose under its own name in destination/year=<Y>/month=<MM> (month with
\* two digits, year unpadded), and the run copied it to no other directory.
C1_DatedFileInMonthDirectory ==
    (pc = "done" /\ ~to_archive) =>
        \A r \in RecordSet :
            IsSome(r.date_taken) =>
                /\ WrittenBy(LeafOfDate(Val(r.date_taken)), r.path)
                /\ \A j \in EventsOf({"copy"}) :
                      events[j].name = r.path => events[j].dir = LeafOfDate(Val(r.date_taken))
                /\ \A f \in dest.files :
                      (f.name = r.path /\ f.from = "run") => f.dir = LeafOfDate(Val(r.date_taken))

\* a copy-mode run ended after storing a file of the year 5 and a file of a
\* one-digit month
C1_Witness ==
    /\ pc = "done"
    /\ ~to_archive
    /\ \E r1, r2 \in RecordSet :
          /\ IsSome(r1.date_taken) /\ Val(r1.date_taken).year = 5
          /\ WrittenBy(<<YEAR_PREFIX \o <<"5">>, MONTH_PREFIX \o <<"1", "2">> >>, r1.path)
          /\ IsSome(r2.date_taken) /\ Val(r2.date_taken).month = 5
          /\ WrittenBy(Month_2023_05, r2.path)

\* the keys of the stub that are the sentinel or no two dash-separated
\* integers: a word with a dash, the sentinel, one integer, three integers
UnroutableKeys ==
    { InvalidFormatKey,
      <<"U", "n", "k", "n", "o", "w", "n">>,
      <<"2", "0", "2", "3">>,
      <<"2", "0", "2", "3", "-", "0", "5", "-", "1", "5">> }

\* destination/unknown, as the path's components
UnknownLeaf == << <<"u", "n", "k", "n", "o", "w", "n">> >>

\* the records of the buckets with such a key
UnroutableRecords ==
    UNION {{buckets[i].items[k] : k \in 1..Len(buckets[i].items)} :
              i \in {b \in 1..Len(buckets) : buckets[b].key \in UnroutableKeys}}

\* the run copied name into dir
Copied(dir, name) ==
    \E j \in EventsOf({"copy"}) : events[j].ok /\ events[j].dir = dir /\ events[j].name = name

\* C2: the records of a bucket whose key is the sentinel "Unknown" or does
\* not parse as two dash-separated integers are, with keep_unknown, all
\* written to destination/unknown under their names by the end of the run
\* (and are loose there in copy mode) and to no other directory; without
\* keep_unknown none of them is written anywhere and the
\* run does not create destination/unknown.
C2_UnknownBucketsKeptOrSkipped ==
    \A r \in UnroutableRecords :
        IF keep_unknown
        THEN /\ \A j \in EventsOf({"copy"}) :
                   events[j].name = r.path => events[j].dir = UnknownLeaf
             /\ pc = "done" =>
                   /\ Copied(UnknownLeaf, r.path)
                   /\ ~to_archive => WrittenBy(UnknownLeaf, r.path)
        ELSE /\ \A j \in EventsOf({"copy"}) : events[j].name /= r.path
             /\ \A f \in dest.files : f.name = r.path => f.from = "old"
             /\ \A z \in dest.zipped : z.name = r.path => z \in dest0.zipped
             /\ \A j \in EventsOf({"mkdir"}) : events[j].dir /= UnknownLeaf
             /\ UnknownLeaf \in dest.dirs => UnknownLeaf \in dest0.dirs

\* a run that keeps unknown files ended after storing a bucket under the
\* sentinel and a bucket under a key that is no year and month
C2_Witness ==
    /\ pc = "done"
    /\ keep_unknown
    /\ ~to_archive
    /\ \E i, j \in 1..Len(buckets) :
          /\ buckets[i].key = UNKNOWN_BUCKET_KEY
          /\ buckets[j].key = InvalidFormatKey
          /\ WrittenBy(UnknownLeaf, buckets[i].items[1].path)
          /\ WrittenBy(UnknownLeaf, buckets[j].items[1].path)

\* the media files of the source directory the reader has visited
VisitedMedia == {e \in srcEntries : e.name \in visited /\ IsMediaFile(e, kind)}

\* C3: _extract_metadata returns, for every file and whatever the image
\* library or the probe raises, a record whose path is the file, and no
\* exception leaves it; read_photos / read_videos holds one record per file
\* it enumerated, in the order of enumeration.
C3_ExtractionNeverPropagates ==
    /\ error.what /= "extract"
    /\ pc = "start" =>
          \A e \in srcEntries :
             /\ ExtractMetadata(kind, e).exc = ""
             /\ ExtractMetadata(kind, e).rec.path = e.name
    /\ \A j \in EventsOf({"extract"}) :
          /\ events[j].ok
          /\ j <= Len(records)
          /\ records[j].path = events[j].name
    /\ Len(records) = Cardinality(EventsOf({"extract"}))

\* the reader returned two records, one of them for a file the image
\* library cannot open or for which exiftool cannot be started
C3_Witness ==
    /\ pc = "bucketing"
    /\ Len(records) = 2
    /\ \E e \in srcEntries :
          /\ e.p.open /= "" \/ e.v.helper /= ""
          /\ \E r \in RecordSet : r.path = e.name

\* the five optional fields of a record are absent
AllAbsent(r) ==
    /\ IsNone(r.date_taken)
    /\ IsNone(r.location)
    /\ IsNone(r.camera_make)
    /\ IsNone(r.camera_model)
    /\ IsNone(r.software)

\* an exception ended the try block of _extract_metadata on the entry
ExtractionRaised(e) ==
    IF kind = "photo" THEN PhotoExtractBody(e.p).exc /= "" ELSE VideoExtractBody(e.v).exc /= ""

\* C4: when an exception is raised while a file's metadata is extracted, the
\* file's record has date_taken, location, camera_make, camera_model and
\* software all absent.
C4_ExceptionGivesAllAbsent ==
    \A e \in VisitedMedia :
        ExtractionRaised(e) => \A r \in RecordSet : r.path = e.name => AllAbsent(r)


\* the last event of the log is op, with the given outcome
LastEventIs(op, ok) ==
    /\ Len(events) > 0
    /\ events[Len(events)].op = op
    /\ events[Len(events)].ok = ok

AllowListedNames ==
    IF kind = "photo"
    THEN { <<"a", ".", "j", "p", "g">>, <<"B", ".", "J", "P", "e", "G">>,
           <<"c", ".", "h", "e", "i", "c">>, <<"o", ".", "J", "P", "G">> }
    ELSE { <<"v", ".", "m", "o", "v">>, <<"W", ".", "M", "P", "4">>,
           <<"x", ".", "m", "p", "4">>, <<"o", ".", "m", "o", "v">> }

\* the names in the archive of a directory
ArchivedNames(dir) == {z.name : z \in {y \in dest.zipped : y.dir = dir}}

\* C6: when archive_photos / archive_videos has returned, the archive of
\* the directory holds exactly the allow-listed names that were loose in
\* the directory when the copy step ended, and none of them is loose there
\* any more.
C6_ArchiveHoldsTheLooseMedia ==
    LastEventIs("unlink", TRUE) =>
        /\ curDir \in dest.zips
        /\ ArchivedNames(curDir) = looseAtArchive \cap AllowListedNames
        /\ LooseNames(dest, curDir) \cap (looseAtArchive \cap AllowListedNames) = {}
        /\ LooseNames(dest, curDir) = looseAtArchive \ AllowListedNames

\* an archive was made of a directory that held, beside the run's copies,
\* an older file with an upper-case extension and a file outside the
\* allow-list, over an older archive
C6_Witness ==
    /\ LastEventIs("unlink", TRUE)
    /\ curDir \in dest0.zips
    /\ {<<"o", ".", "J", "P", "G">>, <<"o", ".", "m", "o", "v">>, <<"n", ".", "t", "x", "t">>}
          \subseteq looseAtArchive
    /\ \E r \in RecordSet : r.path \in ArchivedNames(curDir)
    /\ <<"n", ".", "t", "x", "t">> \in LooseNames(dest, curDir)

\* C7: when creating the archive fails, the run ends with a RuntimeError
\* that carries the archive's path, and every file the copy step put into
\* the directory is still loose there.
C7_ArchiveFailureKeepsTheCopies ==
    LastEventIs("zip", FALSE) =>
        /\ pc = "failed"
        /\ error.type = "RuntimeError"
        /\ error.path = (IF kind = "photo"
                         THEN <<"p", "h", "o", "t", "o", "s", ".", "z", "i", "p">>
                         ELSE <<"v", "i", "d", "e", "o", "s", ".", "z", "i", "p">>)
        /\ error.dir = curDir
        /\ \A k \in 1..Len(buckets[bi].items) : WrittenBy(curDir, buckets[bi].items[k].path)
        /\ LooseNames(dest, curDir) = looseAtArchive

\* the archive of a bucket of two files failed after it was opened
C7_Witness ==
    /\ LastEventIs("zip", FALSE)
    /\ Len(buckets[bi].items) = 2
    /\ curDir \in dest.zips
    /\ curDir \notin dest0.zips

\* C8: a source path that does not exist or is no directory ends the run
\* with a ValueError before anything is read, created or copied: the
\* destination is as it was.
C8_BadSourceLeavesDestinationAlone ==
    srcType /= "dir" =>
        /\ pc \in {"start", "failed"}
        /\ pc = "failed" => error.type = "ValueError"
        /\ dest = dest0
        /\ records = <<>>
        /\ events = <<>>

\* the run failed on a source path that does not exist, with a destination
\* that does not exist either
C8_Witness ==
    /\ pc = "failed"
    /\ srcType = "missing"
    /\ error.type = "ValueError"
    /\ dest = EmptyTree

\* C9: read_photos / read_videos returns exactly one record for each direct
\* child of the source directory that is a regular file with an extension
\* of the allow-list, whatever its case, and none for any other entry.
C9_OneRecordPerMediaFile ==
    pc \in {"bucketing", "dispatch", "copying", "archiving", "removing", "done"} =>
        /\ {records[i].path : i \in 1..Len(records)}
              = {e.name : e \in {c \in srcEntries : c.type = "file" /\ c.name \in AllowListedNames}}
        /\ \A i, j \in 1..Len(records) : records[i].path = records[j].path => i = j

\* the reader returned two records, one for a file with a mixed-case
\* extension, from a directory that holds a subdirectory named like a
\* media file
C9_Witness ==
    /\ pc = "bucketing"
    /\ Len(records) = 2
    /\ \E r \in RecordSet : r.path \in {<<"B", ".", "J", "P", "e", "G">>, <<"W", ".", "M", "P", "4">>}
    /\ \E e \in srcEntries : e.type = "dir"

\* the phases of a run in their order; a failed run has left them
PhaseRank(p) ==
    CASE p = "start" -> 0
      [] p = "reading" -> 1
      [] p = "bucketing" -> 2
      [] p \in {"dispatch", "copying", "archiving", "removing"} -> 3
      [] p = "done" -> 4
      [] OTHER -> 5

\* C10: a run goes through reading, bucketing, dispatch and done in this
\* order, one after the other; records are only added while reading, and
\* the destination only changes once every entry of the source directory
\* has been read, so that no extraction follows a write.
C10_PhasesInOrder ==
    [][ /\ PhaseRank(pc') >= PhaseRank(pc)
        /\ pc' /= "failed" => PhaseRank(pc') <= PhaseRank(pc) + 1
        /\ records' /= records => (pc = "reading" /\ dest = dest0)
        /\ (dest' /= dest \/ EventsOf({"mkdir", "copy", "zip", "unlink"}) /= {}) =>
              /\ PhaseRank(pc) >= 2
              /\ \A e \in srcEntries : e.name \in visited
              /\ records' = records
              /\ events'[Len(events')].op /= "extract"
      ]_vars

\* a run ended after reading two files and writing both
C10_Witness ==
    /\ pc = "done"
    /\ Len(records) = 2
    /\ Cardinality(EventsOf({"copy"})) = 2
    /\ EventsOf({"extract"}) = {1, 2}


(***************************************************************************)
(* Properties of the functions applied on their own.                       *)
(***************************************************************************)
\* the timestamp of the file system for a file: the birth time, else the
\* modification time, absent when stat fails
FileDateOf(stat) ==
    IF stat.fails THEN None
    ELSE IF IsSome(stat.birthtime) THEN stat.birthtime
    ELSE Some(stat.mtime)

\* the date the parsing of a video's metadata yields
MetadataDateOf(v) ==
    IF v.helper /= "" \/ VideoProbe(v).exc /= "" THEN None
    ELSE VideoParseDate(VideoProbe(v).v).v

\* the date_taken C11 gives a video: the metadata's date when there is one,
\* else the file's timestamp for a caller that opts in, else none
DateTakenWanted(arg) ==
    IF IsSome(MetadataDateOf(arg.v)) THEN MetadataDateOf(arg.v)
    ELSE IF "use_file_date" \in arg.keywords THEN FileDateOf(arg.stat)
    ELSE None

\* C11: a video's date_taken is the date of its metadata whenever the
\* metadata yields one; when it yields none and the caller passes
\* use_file_date, date_taken is the file's timestamp (birth time, else
\* modification time, absent when stat fails) and the offload sends the
\* file to the year=/month= directory of that timestamp instead of unknown.
C11_FileDateFallback ==
    call.fn = "_extract_metadata" =>
        /\ call.out.exc = ""
        /\ call.out.rec.date_taken = DateTakenWanted(call.arg)
        /\ IsSome(DateTakenWanted(call.arg)) =>
              Dispatch(YearMonthKey(call.out.rec), TRUE).dir
                 = LeafOfDate(Val(DateTakenWanted(call.arg)))

\* the timestamp a tag value spells under "YYYY:MM:DD HH:MM:SS" (fields of
\* one digit are read as they stand), None for a value that is absent, is
\* no string or spells no timestamp
ExifDateSpelled(val) ==
    CASE val = StrV(<<"2", "0", "2", "3", ":", "0", "5", ":", "1", "5", " ", "1", "0", ":", "0", "0", ":", "0", "0">>) -> Some(DateTime(2023, 5, 15, 10, 0, 0))
      [] val = StrV(<<"2", "0", "2", "3", ":", "0", "6", ":", "1", "0", " ", "0", "8", ":", "3", "0", ":", "0", "0">>) -> Some(DateTime(2023, 6, 10, 8, 30, 0))
      [] val = StrV(<<"0", "0", "0", "5", ":", "1", "2", ":", "0", "1", " ", "0", "0", ":", "0", "0", ":", "0", "0">>) -> Some(DateTime(5, 12, 1, 0, 0, 0))
      [] val = StrV(<<"2", "0", "2", "4", ":", "0", "2", ":", "2", "9", " ", "2", "3", ":", "5", "9", ":", "5", "9">>) -> Some(DateTime(2024, 2, 29, 23, 59, 59))
      [] val = StrV(<<"2", "0", "2", "3", ":", "5", ":", "1", " ", "1", ":", "2", ":", "3">>) -> Some(DateTime(2023, 5, 1, 1, 2, 3))
      [] OTHER -> None

\* C12: _parse_exif_date returns the timestamp of the first of
\* DateTimeOriginal, DateTimeDigitized, DateTime that is present and whose
\* value parses; a field that is present and does not parse (or is no
\* string) is passed over; the result is absent when no field parses.
C12_FirstParseableExifDate ==
    call.fn = "_parse_exif_date" =>
        call.out =
            IF IsSome(ExifDateSpelled(call.arg["DateTimeOriginal"]))
            THEN ExifDateSpelled(call.arg["DateTimeOriginal"])
            ELSE IF IsSome(ExifDateSpelled(call.arg["DateTimeDigitized"]))
            THEN ExifDateSpelled(call.arg["DateTimeDigitized"])
            ELSE ExifDateSpelled(call.arg["DateTime"])

\* the parser took DateTimeOriginal out of three conflicting dates, and took
\* DateTime when the two fields before it did not parse
C12_Witness ==
    /\ call.fn = "_parse_exif_date"
    /\ \/ /\ call.arg["DateTimeOriginal"] = StrV(<<"2", "0", "2", "3", ":", "0", "5", ":", "1", "5", " ", "1", "0", ":", "0", "0", ":", "0", "0">>)
          /\ call.arg["DateTimeDigitized"] = StrV(<<"2", "0", "2", "3", ":", "0", "6", ":", "1", "0", " ", "0", "8", ":", "3", "0", ":", "0", "0">>)
          /\ call.arg["DateTime"] = StrV(<<"2", "0", "2", "4", ":", "0", "2", ":", "2", "9", " ", "2", "3", ":", "5", "9", ":", "5", "9">>)
          /\ call.out = Some(DateTime(2023, 5, 15, 10, 0, 0))
       \/ /\ call.arg["DateTimeOriginal"] = StrV(<<"n", "o", "t", " ", "a", " ", "d", "a", "t", "e">>)
          /\ call.arg["DateTimeDigitized"] = IntV(20230515)
          /\ call.arg["DateTime"] = StrV(<<"2", "0", "2", "3", ":", "0", "6", ":", "1", "0", " ", "0", "8", ":", "3", "0", ":", "0", "0">>)
          /\ call.out = Some(DateTime(2023, 6, 10, 8, 30, 0))

\* the date a tag value yields on its own: the timestamp it spells in one of
\* the notations (a trailing offset dropped, a date without time at
\* midnight), None for a value that is absent, whose string conversion
\* raises, or that spells no date
VideoDateSpelled(val) ==
    CASE val = StrV(<<"2", "0", "2", "3", ":", "0", "5", ":", "1", "5", " ", "1", "0", ":", "0", "0", ":", "0", "0">>) -> Some(DateTime(2023, 5, 15, 10, 0, 0))
      [] val = StrV(<<"2", "0", "2", "3", "-", "0", "6", "-", "1", "0", "T", "0", "8", ":", "3", "0", ":", "0", "0">>) -> Some(DateTime(2023, 6, 10, 8, 30, 0))
      [] val = StrV(<<"2", "0", "2", "4", ":", "0", "8", ":", "0", "4">>) -> Some(DateTime(2024, 8, 4, 0, 0, 0))
      [] val = StrV(<<"2", "0", "2", "3", "-", "0", "5", "-", "1", "5", "T", "1", "0", ":", "0", "0", ":", "0", "0", "-", "0", "7", ":", "0", "0">>) -> Some(DateTime(2023, 5, 15, 10, 0, 0))
      [] OTHER -> None

\* the order in which C13 lists the candidate fields
C13_FieldOrder ==
    <<"QuickTime:CreationDate", "QuickTime:CreateDate", "QuickTime:MediaCreateDate",
      "Keys:CreationDate", "Keys:CreateDate", "CreateDate", "CreationDate",
      "DateTimeOriginal", "MediaCreateDate">>

\* the fields of that order that yield a date, as positions
YieldingFields(metadata) ==
    {i \in 1..Len(C13_FieldOrder) : IsSome(VideoDateSpelled(metadata[C13_FieldOrder[i]]))}

\* C13: the video _parse_date returns the date of the first field, in the
\* order QuickTime:CreationDate ... MediaCreateDate, that yields a usable
\* date; a field whose string conversion raises TypeError, AttributeError
\* or ValueError, or whose value is no date, is passed over; the result is
\* absent when no field yields a date.
C13_FirstUsableVideoDate ==
    call.fn = "_parse_date" =>
        /\ call.out.exc = ""
        /\ call.out.v =
              IF YieldingFields(call.arg) = {} THEN None
              ELSE VideoDateSpelled(
                      call.arg[C13_FieldOrder[CHOOSE i \in YieldingFields(call.arg) :
                                                 \A j \in YieldingFields(call.arg) : i <= j]])

\* the parser passed over a field whose string conversion raises and took
\* the date of a later field
C13_Witness ==
    /\ call.fn = "_parse_date"
    /\ call.arg["QuickTime:CreateDate"] = BadStrV("AttributeError")
    /\ call.arg["MediaCreateDate"] = StrV(<<"2", "0", "2", "3", "-", "0", "6", "-", "1", "0", "T", "0", "8", ":", "3", "0", ":", "0", "0">>)
    /\ call.out.v = Some(DateTime(2023, 6, 10, 8, 30, 0))

\* the timestamp a date string spells once its offset is removed: the fields
\* as they are written; a string that is in none of the full notations (no
\* seconds, no time, a further offset) keeps its date only
OffsetBaseSpelled(base) ==
    CASE base = <<"2", "0", "2", "4", ":", "0", "8", ":", "0", "4", " ", "1", "1", ":", "4", "5", ":", "2", "6">> -> Some(DateTime(2024, 8, 4, 11, 45, 26))
      [] base = <<"2", "0", "2", "3", "-", "0", "5", "-", "1", "5", "T", "1", "0", ":", "0", "0", ":", "0", "0">> -> Some(DateTime(2023, 5, 15, 10, 0, 0))
      [] base = <<"2", "0", "2", "3", "-", "0", "5", "-", "1", "5", " ", "1", "0", ":", "0", "0", ":", "0", "0">> -> Some(DateTime(2023, 5, 15, 10, 0, 0))
      [] base = <<"2", "0", "2", "4", "-", "0", "2", "-", "2", "9", "T", "2", "3", ":", "5", "9", ":", "5", "9", ".", "1", "2", "3", "4", "5", "6">> ->
            Some([DateTime(2024, 2, 29, 23, 59, 59) EXCEPT !.microsecond = 123456])
      [] base = <<"2", "0", "2", "3", "-", "1", "2", "-", "3", "1", "T", "2", "3", ":", "3", "0", ":", "0", "0">> -> Some(DateTime(2023, 12, 31, 23, 30, 0))
      [] base = <<"2", "0", "2", "3", ":", "0", "5", ":", "1", "5", " ", "1", "4", ":", "3", "0">> -> Some(DateTime(2023, 5, 15, 0, 0, 0))
      [] base = <<"2", "0", "2", "3", "-", "0", "5", "-", "1", "5">> -> Some(DateTime(2023, 5, 15, 0, 0, 0))
      [] base = <<"2", "0", "2", "3", "-", "0", "5", "-", "1", "5", "T", "1", "0", ":", "0", "0", ":", "0", "0", "+", "0", "1", ":", "0", "0">> -> Some(DateTime(2023, 5, 15, 0, 0, 0))
      [] OTHER -> None

\* C14 as claimed: for a date string that ends with a timezone offset [+-]HH:MM,
\* _parse_date returns exactly what it returns for the string without the
\* offset: the fields are those written in the string, and the offset is
\* neither added to nor subtracted from them.
C14_OffsetIsDropped ==
    call.fn = "_parse_date with offset" =>
        /\ call.out.with = call.out.without
        /\ call.out.with.exc = ""
        /\ call.out.with.v = OffsetBaseSpelled(call.arg.base)

\* C14: for a date string that ends with a timezone offset [+-]HH:MM,
\* _parse_date removes that one offset and returns the timestamp the text
\* before it spells, the offset neither added nor subtracted; this is what
\* _parse_date returns for the text before the offset, unless that text
\* ends with an offset of its own.
C14_LastOffsetIsDropped ==
    call.fn = "_parse_date with offset" =>
        /\ call.out.with.exc = ""
        /\ call.out.with.v = OffsetBaseSpelled(call.arg.base)
        /\ ~HasTzOffset(call.arg.base) => call.out.with = call.out.without

\* a timestamp half an hour before the year's end came back as written
\* although its offset, subtracted, would lead into the next year
C14_Witness ==
    /\ call.fn = "_parse_date with offset"
    /\ call.arg.base = <<"2", "0", "2", "3", "-", "1", "2", "-", "3", "1", "T", "2", "3", ":", "3", "0", ":", "0", "0">>
    /\ call.arg.tz = <<"-", "0", "7", ":", "0", "0">>
    /\ call.out.with.v = Some(DateTime(2023, 12, 31, 23, 30, 0))

\* degrees + minutes/60 + seconds/3600 of a triple in hundredths, in units
\* of 1/360000 degree: a degree is 360000 units, a minute 6000, a second 100
SumOfDms(dms) == 36 * dms[1] * 100 + 6 * dms[2] * 10 + dms[3]

\* C15: _dms_to_decimal(dms, ref) is degrees + minutes/60 + seconds/3600,
\* negated exactly when ref is 'S' or 'W' and as it is for every other ref,
\* whatever the range of the three numbers; the converters of
\* PhotoOffloader, VideoOffloader and Application agree on every input, and
\* (37, 46, 26.30) with ref S gives -37.773972...
C15_DmsToDecimal ==
    call.fn = "_dms_to_decimal" =>
        /\ call.out.photo =
              IF call.arg.ref \in {StrV(<<"S">>), StrV(<<"W">>)}
              THEN 0 - SumOfDms(call.arg.dms)
              ELSE SumOfDms(call.arg.dms)
        /\ call.out.video = call.out.photo
        /\ call.out.application = call.out.photo
        /\ (call.arg.dms = <<3700, 4600, 2630>> /\ call.arg.ref = StrV(<<"S">>)) =>
              /\ call.out.photo = 0 - 13598630
              /\ 0 - 37773973 * 36 < call.out.photo * 100
              /\ call.out.photo * 100 < 0 - 37773972 * 36

\* the converter negated a triple outside the range of a latitude for the
\* reference W
C15_Witness ==
    /\ call.fn = "_dms_to_decimal"
    /\ call.arg.dms = <<20000, 7500, 360000>>
    /\ call.arg.ref = StrV(<<"W">>)
    /\ call.out.video = 0 - (72000000 + 450000 + 360000)

\* C16 as claimed: for every DMS triple the converter gives a value >= 0
\* when the reference is N or E and the degrees are >= 0, and a value <= 0
\* when the reference is S or W
C16_SignFollowsReference ==
    call.fn = "_dms_to_decimal" =>
        /\ (call.arg.ref \in {StrV(<<"N">>), StrV(<<"E">>)} /\ call.arg.dms[1] >= 0) =>
              call.out.photo >= 0
        /\ call.arg.ref \in {StrV(<<"S">>), StrV(<<"W">>)} => call.out.photo <= 0

\* the triple holds no negative number
NonNegativeDms(dms) == dms[1] >= 0 /\ dms[2] >= 0 /\ dms[3] >= 0

\* C16: for every DMS triple whose degrees, minutes and seconds are all
\* >= 0, _dms_to_decimal gives a value >= 0 when the reference is N or E
\* and a value <= 0 when the reference is S or W
C16_SignFollowsReferenceOfNonNegative ==
    (call.fn = "_dms_to_decimal" /\ NonNegativeDms(call.arg.dms)) =>
        /\ call.arg.ref \in {StrV(<<"N">>), StrV(<<"E">>)} => call.out.photo >= 0
        /\ call.arg.ref \in {StrV(<<"S">>), StrV(<<"W">>)} => call.out.photo <= 0

\* a triple of positive numbers was converted below zero for the
\* reference S
C16_Witness ==
    /\ call.fn = "_dms_to_decimal"
    /\ call.arg.dms = <<3700, 4600, 2630>>
    /\ call.arg.ref = StrV(<<"S">>)
    /\ call.out.photo < 0

\* the attribute a grouping reads: None when the record lacks it, else the
\* string, or the numbers of the date the grouping keeps
AttributeOf(rec, group_by) ==
    CASE group_by = "software"     -> rec.software
      [] group_by = "camera_make"  -> rec.camera_make
      [] group_by = "camera_model" -> rec.camera_model
      [] group_by = "year" ->
            IF rec.date_taken = None THEN None ELSE Some(<<Val(rec.date_taken).year>>)
      [] group_by = "year_month" ->
            IF rec.date_taken = None THEN None
            ELSE Some(<<Val(rec.date_taken).year, Val(rec.date_taken).month>>)
      [] group_by = "year_month_day" ->
            IF rec.date_taken = None THEN None
            ELSE Some(<<Val(rec.date_taken).year, Val(rec.date_taken).month,
                        Val(rec.date_taken).day>>)

IsDateGrouping(group_by) == group_by \in {"year", "year_month", "year_month_day"}

\* the numbers a date key spells between its separators
NumbersOfKey(key) ==
    LET parts == Split(key, "-")
    IN  [i \in 1..Len(parts) |-> DigitsToInt(parts[i])]

\* key is the key C17 gives the record
IsKeyOf(key, rec, group_by) ==
    IF AttributeOf(rec, group_by) = None THEN key = <<"U", "n", "k", "n", "o", "w", "n">>
    ELSE IF IsDateGrouping(group_by)
         THEN /\ \A i \in 1..Len(key) : IsDigit(key[i]) \/ key[i] = "-"
              /\ \A part \in Range(Split(key, "-")) : part /= <<>>
              /\ NumbersOfKey(key) = Val(AttributeOf(rec, group_by))
         ELSE key = Val(AttributeOf(rec, group_by))

\* the positions of the input whose record has the key
RECURSIVE PositionsWithKey(_, _, _, _)
PositionsWithKey(photos, group_by, key, i) ==
    IF i > Len(photos) THEN <<>>
    ELSE (IF IsKeyOf(key, photos[i], group_by) THEN <<i>> ELSE <<>>)
         \o PositionsWithKey(photos, group_by, key, i + 1)

\* C17: bucket_photos / bucket_videos partitions its input for every
\* grouping attribute: a bucket holds exactly the input's records whose
\* attribute gives the bucket's key (the string, the formatted date, or
\* "Unknown" for an absent attribute), once for each place they have in the
\* input and in the input's order; no key occurs twice, no bucket is empty,
\* every place of the input falls in a bucket, and an empty input gives an
\* empty mapping
C17_BucketsPartitionTheInput ==
    call.fn = "bucket_photos" =>
        LET photos   == call.arg.photos
            group_by == call.arg.group_by
            result   == call.out
        IN  /\ \A b \in 1..Len(result) :
                  LET at == PositionsWithKey(photos, group_by, result[b].key, 1)
                  IN  /\ Len(result[b].items) > 0
                      /\ result[b].items = [k \in 1..Len(at) |-> photos[at[k]]]
            /\ \A b, c \in 1..Len(result) : result[b].key = result[c].key => b = c
            /\ \A i \in 1..Len(photos) :
                  \E b \in 1..Len(result) : IsKeyOf(result[b].key, photos[i], group_by)
            /\ photos = <<>> => result = <<>>

\* a list with one dated record twice and a record without a date between
\* them was bucketed by month into two buckets
C17_Witness ==
    /\ call.fn = "bucket_photos"
    /\ call.arg.group_by = "year_month"
    /\ Len(call.arg.photos) = 3
    /\ call.arg.photos[1] = call.arg.photos[3]
    /\ call.arg.photos[1].date_taken /= None
    /\ call.arg.photos[2].date_taken = None
    /\ Len(call.out) = 2
    /\ Len(call.out[1].items) = 2
    /\ call.out[2].key = <<"U", "n", "k", "n", "o", "w", "n">>

\* the last two digits of n, and the last four
TwoDigits(n) == <<Digits[((n \div 10) % 10) + 1], Digits[(n % 10) + 1]>>

FourDigits(n) == TwoDigits(n \div 100) \o TwoDigits(n)

\* C18: for a record with a date_taken whose year is in 1..9999, the bucket
\* key for year, year_month and year_month_day is the zero-padded string
\* "YYYY", "YYYY-MM" and "YYYY-MM-DD": four digits of year, two of month,
\* two of day
C18_ZeroPaddedDateKeys ==
    (/\ call.fn = "_get_bucket_key"
     /\ call.arg.photo.date_taken /= None
     /\ Val(call.arg.photo.date_taken).year \in 1..9999) =>
        /\ call.arg.group_by = "year" =>
              call.out = FourDigits(Val(call.arg.photo.date_taken).year)
        /\ call.arg.group_by = "year_month" =>
              call.out = FourDigits(Val(call.arg.photo.date_taken).year) \o <<"-">>
                         \o TwoDigits(Val(call.arg.photo.date_taken).month)
        /\ call.arg.group_by = "year_month_day" =>
              call.out = FourDigits(Val(call.arg.photo.date_taken).year) \o <<"-">>
                         \o TwoDigits(Val(call.arg.photo.date_taken).month) \o <<"-">>
                         \o TwoDigits(Val(call.arg.photo.date_taken).day)

\* the number of places the record has in the list
CountOf(rec, list) == Cardinality({i \in 1..Len(list) : list[i] = rec})

\* C19: for every list of records and every grouping attribute, in the
\* output of sort_photos / sort_videos every record whose attribute is
\* present comes before every record whose attribute is absent, and the
\* output is a permutation of the input
C19_PresentBeforeAbsent ==
    call.fn = "sort_photos" =>
        /\ Len(call.out) = Len(call.arg.photos)
        /\ \A rec \in RecordSpecimens : CountOf(rec, call.out) = CountOf(rec, call.arg.photos)
        /\ \A i, j \in 1..Len(call.out) :
              (/\ AttributeOf(call.out[i], call.arg.group_by) = None
               /\ AttributeOf(call.out[j], call.arg.group_by) /= None) => j < i

\* a list that begins with a record without a make, followed by makes in
\* lower and in upper case, was sorted by make: the record without a make
\* came last, behind the make in lower case
C19_Witness ==
    /\ call.fn = "sort_photos"
    /\ call.arg.group_by = "camera_make"
    /\ Len(call.arg.photos) = 3
    /\ call.arg.photos[1].camera_make = None
    /\ call.arg.photos[2].camera_make = Some(<<"a", "p", "p", "l", "e">>)
    /\ call.arg.photos[3].camera_make = Some(<<"C", "a", "n", "o", "n">>)
    /\ call.out = <<call.arg.photos[3], call.arg.photos[2], call.arg.photos[1]>>

\* the three numbers the converter reads from a coordinate of the GPS
\* block, <<>> when it cannot: a tuple of three numbers, or a string of
\* three digits
ReadableDms(val) ==
    CASE val.t = "dms" -> val.d
      [] val.t = "str" /\ val.s = <<"1", "2", "3">> -> <<100, 200, 300>>
      [] OTHER -> <<>>

\* the decimal degrees of a triple under a reference, an absent reference
\* standing for the default given
DecimalUnder(dms, ref, default) ==
    IF (IF ref = Absent THEN default ELSE ref) \in {StrV(<<"S">>), StrV(<<"W">>)}
    THEN 0 - SumOfDms(dms)
    ELSE SumOfDms(dms)

\* C20: _parse_exif_location returns None when the GPS tag is not in the
\* raw metadata, or when the latitude or the longitude is absent from the
\* GPS block; otherwise it returns (latitude, longitude) converted with the
\* block's references, N and E standing for a missing one; a KeyError,
\* TypeError, ValueError, IndexError or AttributeError raised while reading
\* or converting gives None and never leaves the function
C20_ParseExifLocation ==
    call.fn = "_parse_exif_location" =>
        /\ call.out.exc \notin
              {"KeyError", "TypeError", "ValueError", "IndexError", "AttributeError"}
        /\ ~call.arg.hasGps => call.out = Ret(None)
        /\ (call.arg.hasGps /\ call.arg.get_ifd \notin {"", "OSError"}) => call.out = Ret(None)
        /\ (call.arg.hasGps /\ call.arg.get_ifd = "") =>
              IF call.arg.gps[2] = Absent \/ call.arg.gps[4] = Absent
              THEN call.out = Ret(None)
              ELSE IF ReadableDms(call.arg.gps[2]) = <<>> \/ ReadableDms(call.arg.gps[4]) = <<>>
              THEN call.out = Ret(None)
              ELSE call.out =
                      Ret(Some(<<DecimalUnder(ReadableDms(call.arg.gps[2]), call.arg.gps[1],
                                              StrV(<<"N">>)),
                                 DecimalUnder(ReadableDms(call.arg.gps[4]), call.arg.gps[3],
                                              StrV(<<"E">>))>>))

\* a block with the latitude's reference S and the longitude's reference
\* missing was converted to a latitude below and a longitude above zero
C20_Witness ==
    /\ call.fn = "_parse_exif_location"
    /\ call.arg.hasGps
    /\ call.arg.get_ifd = ""
    /\ call.arg.gps = <<StrV(<<"S">>), DmsV(<<3700, 4600, 2630>>), Absent,
                        DmsV(<<12200, 2500, 900>>)>>
    /\ call.out = Ret(Some(<<0 - 13598630, 44070900>>))

\* the invocation of the probe that completed returned data: a list whose
\* first entry holds a tag
ReturnedData(exc, hasEntry, tags) ==
    exc = "" /\ hasEntry /\ \E tag \in DOMAIN tags : tags[tag] /= Absent

\* C21: for a video the extractor invokes the probe with the embedded-data
\* parameters first, and invokes it plainly if and only if the first
\* invocation raised; when the plain invocation raises too, or the
\* invocation that completed returns no data, the record returned has all
\* optional fields absent; with data the record is parsed from the tags of
\* the invocation that completed
C21_EmbeddedThenPlain ==
    call.fn = "_extract_metadata probing" =>
        /\ call.out.exc = ""
        /\ call.out.calls =
              IF call.arg.eeExc = "" THEN << "-ee" >> ELSE << "-ee", "plain" >>
        /\ (call.arg.eeExc = ""
              /\ ~ReturnedData(call.arg.eeExc, call.arg.eeList, call.arg.eeTags)) =>
              AllAbsent(call.out.rec)
        /\ (call.arg.eeExc /= ""
              /\ ~ReturnedData(call.arg.plainExc, call.arg.plainList, call.arg.plainTags)) =>
              AllAbsent(call.out.rec)
        /\ ReturnedData(call.arg.eeExc, call.arg.eeList, call.arg.eeTags) =>
              /\ call.out.rec.date_taken = Some(DateTime(2023, 5, 15, 10, 0, 0))
              /\ call.out.rec.camera_make = Some(<<"C", "a", "n", "o", "n">>)
        /\ (call.arg.eeExc /= ""
              /\ ReturnedData(call.arg.plainExc, call.arg.plainList, call.arg.plainTags)) =>
              /\ call.out.rec.date_taken = Some(DateTime(2023, 6, 10, 8, 30, 0))
              /\ call.out.rec.camera_make = None

\* the first invocation raised although it would have returned tags, and
\* the plain one returned the tags the record was parsed from
C21_Witness ==
    /\ call.fn = "_extract_metadata probing"
    /\ call.arg.eeExc = "ValueError"
    /\ call.arg.eeList
    /\ call.arg.eeTags = TagsOfEmbedded
    /\ call.out.calls = << "-ee", "plain" >>
    /\ call.out.rec.date_taken = Some(DateTime(2023, 6, 10, 8, 30, 0))

\* C22: the video _parse_location never raises: for every metadata
\* argument, None and tag values whose string conversion raises included,
\* an error anywhere during the parsing gives None as the result
C22_ParseLocationNeverRaises ==
    call.fn = "_parse_location" => call.out.exc = ""

\* the values of a combined tag that hold fewer than two tokens, or a first
\* or second token that is no number
UnusableCombined ==
    { StrV(<<"i", "n", "v", "a", "l", "i", "d">>), StrV(<<"3", "7", ".", "7", "7", "4", "9">>), StrV(<<"i", "n", "v", "a", "l", "i", "d", " ", "l", "a", "t">>), StrV(<<"3", "7", ".", "7", "7", "4", "9", " ", "w", "e", "s", "t">>), StrV(<<>>),
      IntV(5) }

\* C23 as claimed: for every mapping in which a combined coordinate tag is
\* present with fewer than two tokens, or with a first or second token that
\* is no number, _parse_location gives None and raises no error
C23_UnusableCombinedGivesAbsent ==
    (/\ call.fn = "_parse_location"
     /\ call.arg /= NoneMapping
     /\ \E tag \in {"QuickTime:GPSCoordinates", "Keys:GPSCoordinates"} :
           call.arg[tag] \in UnusableCombined) =>
        call.out = Ret(None)

\* C23: a combined coordinate tag that is present with fewer than two
\* tokens, or with a first or second token that is no number, gives no
\* coordinates and no error of its own: _parse_location returns what it
\* returns for the same mapping without that tag, which is None when the
\* other combined tag is absent and a latitude or a longitude tag is
\* missing
C23_UnusableCombinedIsPassedOver ==
    (call.fn = "_parse_location" /\ call.arg /= NoneMapping) =>
        \A tag \in {"QuickTime:GPSCoordinates", "Keys:GPSCoordinates"} :
            call.arg[tag] \in UnusableCombined =>
                /\ call.out = VideoParseLocation([call.arg EXCEPT ![tag] = Absent])
                /\ (/\ \A other \in {"QuickTime:GPSCoordinates", "Keys:GPSCoordinates"} \ {tag} :
                          call.arg[other] = Absent
                    /\ \/ call.arg["GPSLatitude"] = Absent
                       \/ call.arg["GPSLongitude"] = Absent) =>
                      call.out = Ret(None)

\* a combined tag whose second token is no number stood before the other
\* combined tag, whose coordinates were returned
C23_Witness ==
    /\ call.fn = "_parse_location"
    /\ call.arg /= NoneMapping
    /\ call.arg["QuickTime:GPSCoordinates"] = StrV(<<"3", "7", ".", "7", "7", "4", "9", " ", "w", "e", "s", "t">>)
    /\ call.arg["Keys:GPSCoordinates"] /= Absent
    /\ call.out = Ret(Some(<<0 - 338688 * 36, 1512093 * 36>>))

\* the latitude values of the model that spell degrees, minutes and
\* seconds in the DMS notation, all of them 37 deg 46' 26.30"
DmsLatitudes == { StrV(Dms_37_46_26), StrV(<<"3", "7", " ", "d", "e", "g", " ", "4", "6", " ", "2", "6", ".", "3", "0", " ", "N">>) }

\* C25: when no combined tag gives coordinates and a latitude and a
\* longitude tag are present: two values in DMS notation give the DMS
\* conversion of each, negated for GPSLatitudeRef S and GPSLongitudeRef W
\* and as it is when the reference tag is absent; two decimal numbers are
\* returned as they are, whatever the references; everything else gives
\* None
C25_DmsThenDecimal ==
    (/\ call.fn = "_parse_location"
     /\ call.arg /= NoneMapping
     /\ call.arg["QuickTime:GPSCoordinates"] \in UnusableCombined \cup {Absent}
     /\ call.arg["Keys:GPSCoordinates"] = Absent
     /\ call.arg["GPSLatitude"].t = "str"
     /\ call.arg["GPSLongitude"].t = "str") =>
        IF call.arg["GPSLatitude"] \in DmsLatitudes
           /\ call.arg["GPSLongitude"] = StrV(Dms_122_25_9)
        THEN call.out =
                Ret(Some(<<IF call.arg["GPSLatitudeRef"] = StrV(<<"S">>)
                           THEN 0 - 13598630 ELSE 13598630,
                           IF call.arg["GPSLongitudeRef"] = StrV(<<"W">>)
                           THEN 0 - 44070984 ELSE 44070984>>))
        ELSE IF call.arg["GPSLatitude"] = StrV(<<"3", "7", ".", "7", "7", "4", "9">>)
                /\ call.arg["GPSLongitude"] = StrV(<<"-", "1", "2", "2", ".", "4", "1", "9", "4">>)
        THEN call.out = Ret(Some(<<377749 * 36, 0 - 1224194 * 36>>))
        ELSE call.out = Ret(None)

\* latitude and longitude in DMS notation with the references S and W,
\* behind a combined tag of one token: both coordinates are below zero
C25_Witness ==
    /\ call.fn = "_parse_location"
    /\ call.arg /= NoneMapping
    /\ call.arg["QuickTime:GPSCoordinates"] = StrV(<<"i", "n", "v", "a", "l", "i", "d">>)
    /\ call.arg["Keys:GPSCoordinates"] = Absent
    /\ call.arg["GPSLatitude"] = StrV(<<"3", "7", " ", "d", "e", "g", " ", "4", "6", " ", "2", "6", ".", "3", "0", " ", "N">>)
    /\ call.arg["GPSLongitude"] = StrV(Dms_122_25_9)
    /\ call.arg["GPSLatitudeRef"] = StrV(<<"S">>)
    /\ call.arg["GPSLongitudeRef"] = StrV(<<"W">>)
    /\ call.out = Ret(Some(<<0 - 13598630, 0 - 44070984>>))

\* the date-only substring of the strings of the model: the part before a
\* 'T', else before a space, else the first 10 characters
DateOnlySubstring(s) ==
    CASE s = <<"2", "0", "2", "4", ":", "0", "8", ":", "0", "4">> -> <<"2", "0", "2", "4", ":", "0", "8", ":", "0", "4">>
      [] s = <<"2", "0", "2", "3", "-", "0", "5", "-", "1", "5", "T", "i", "n", "v", "a", "l", "i", "d", "-", "t", "i", "m", "e">> -> <<"2", "0", "2", "3", "-", "0", "5", "-", "1", "5">>
      [] s = <<"2", "0", "2", "3", "-", "0", "5", "-", "1", "5", " ", "i", "n", "v", "a", "l", "i", "d", "-", "t", "i", "m", "e">> -> <<"2", "0", "2", "3", "-", "0", "5", "-", "1", "5">>
      [] s = <<"2", "0", "2", "3">> -> <<"2", "0", "2", "3">>
      [] s = <<"2", "0", "2", "3", "-", "0", "5", "-", "1", "5">> -> <<"2", "0", "2", "3", "-", "0", "5", "-", "1", "5">>
      [] s = <<"2", "0", "2", "3", ":", "1", "3", ":", "4", "5">> -> <<"2", "0", "2", "3", ":", "1", "3", ":", "4", "5">>
      [] s = <<"2", "0", "2", "3", "-", "1", "3", "-", "4", "5">> -> <<"2", "0", "2", "3", "-", "1", "3", "-", "4", "5">>
      [] s = <<"2", "0", "2", "3", ":", "0", "5", ":", "1", "5", " ", "1", "4", ":", "3", "0">> -> <<"2", "0", "2", "3", ":", "0", "5", ":", "1", "5">>
      [] s = <<"2", "0", "2", "3", "-", "5", "-", "1", "T", "i", "n", "v", "a", "l", "i", "d">> -> <<"2", "0", "2", "3", "-", "5", "-", "1">>
      [] s = <<"2", "0", "2", "3", ":", "5", ":", "1", " ", "x">> -> <<"2", "0", "2", "3", ":", "5", ":", "1">>
      [] s = <<"2", "0", "2", "3", "-", "5", "-", "1">> -> <<"2", "0", "2", "3", "-", "5", "-", "1">>
      [] s = <<"2", "0", "2", "3", "-", "0", "5", "-", "1", "5", "x", "y", "z">> -> <<"2", "0", "2", "3", "-", "0", "5", "-", "1", "5">>
      [] s = <<"2", "0", "2", "3", "-", "0", "5", "-", "1", "5", "x", "y", "z", "T", "a", "b", "c">> -> <<"2", "0", "2", "3", "-", "0", "5", "-", "1", "5", "x", "y", "z">>
      [] s = <<"2", "0", "2", "3", "0", "5", "1", "5", "T", "1", "0", "1", "0", "1", "0">> -> <<"2", "0", "2", "3", "0", "5", "1", "5">>
      [] s = <<"T", "u", "e", "s", "d", "a", "y">> -> <<>>
      [] s = <<"2", "0", "2", "3", "-", "0", "2", "-", "3", "0", " ", "1", "0", ":", "0", "0", ":", "0", "0">> -> <<"2", "0", "2", "3", "-", "0", "2", "-", "3", "0">>

\* the date a substring spells as YYYY-MM-DD, its colons read as dashes
\* (months and days of one digit are read as they stand), None when it
\* spells none
DateSpelled(part) ==
    CASE part \in {<<"2", "0", "2", "4", ":", "0", "8", ":", "0", "4">>} -> Some(DateTime(2024, 8, 4, 0, 0, 0))
      [] part \in {<<"2", "0", "2", "3", "-", "0", "5", "-", "1", "5">>, <<"2", "0", "2", "3", ":", "0", "5", ":", "1", "5">>} -> Some(DateTime(2023, 5, 15, 0, 0, 0))
      [] part \in {<<"2", "0", "2", "3", "-", "5", "-", "1">>, <<"2", "0", "2", "3", ":", "5", ":", "1">>} -> Some(DateTime(2023, 5, 1, 0, 0, 0))
      [] OTHER -> None

\* C24 as claimed: when a field's value matches none of the four full
\* formats, the date-only substring is cut from it and parsed as
\* YYYY-MM-DD, colons read as dashes; whenever the substring is a parseable
\* date, the field yields that date with the time 00:00:00
C24_DateOnlySubstringParsed ==
    (call.fn = "_parse_date fallback" /\ DateSpelled(DateOnlySubstring(call.arg)) /= None) =>
        call.out = Ret(DateSpelled(DateOnlySubstring(call.arg)))

\* C24: when a field's value matches none of the four full formats, the
\* date-only substring is cut from it; a substring of at least 10
\* characters is parsed by its first 10 characters as YYYY-MM-DD, colons
\* read as dashes, and whenever these spell a date the field yields that
\* date with the time 00:00:00; a substring of fewer than 10 characters
\* yields nothing, also when it spells a date
C24_FirstTenCharactersParsed ==
    call.fn = "_parse_date fallback" =>
        IF Len(DateOnlySubstring(call.arg)) >= 10
        THEN call.out = Ret(DateSpelled(SubSeq(DateOnlySubstring(call.arg), 1, 10)))
        ELSE call.out = Ret(None)

\* a value without seconds was cut at its space and its date part, written
\* with colons, gave the date at midnight
C24_Witness ==
    /\ call.fn = "_parse_date fallback"
    /\ call.arg = <<"2", "0", "2", "3", ":", "0", "5", ":", "1", "5", " ", "1", "4", ":", "3", "0">>
    /\ call.out = Ret(Some(DateTime(2023, 5, 15, 0, 0, 0)))

(***************************************************************************)
(* C30: the keys of the program's own year_month bucketing always parse.   *)
(***************************************************************************)
\* the records read that bear no date
Undated == {i \in 1..Len(records) : IsNone(records[i].date_taken)}

\* C30: with the program's reader and bucketing, every bucket key other than
\* "Unknown" splits into two integers, so the invalid-format branch is never
\* taken and its count stays 0, and at the end of a run the unknown-date
\* count is the number of records without date_taken, kept or skipped
C30_InvalidFormatUnreachable ==
    ~patched =>
        /\ \A i \in 1..Len(buckets) :
              buckets[i].key = UNKNOWN_BUCKET_KEY \/ YearMonthParses(buckets[i].key)
        /\ \A i \in 1..Len(buckets) : Dispatch(buckets[i].key, keep_unknown).route /= "invalid"
        /\ invalid_format_count = 0
        /\ pc = "done" => unknown_count = Cardinality(Undated)

\* a finished run that skipped a record without date and saved a dated one
C30_Witness ==
    /\ ~patched
    /\ pc = "done"
    /\ ~keep_unknown
    /\ unknown_count = 1
    /\ Len(records) = 2
    /\ Len(buckets) = 2

(***************************************************************************)
(* C29: the archive is created afresh.                                     *)
(***************************************************************************)
\* the directories whose archive the run has written
ArchivedDirs == {events[i].dir : i \in {j \in 1..Len(events) : events[j].op = "zip" /\ events[j].ok}}

\* the names that were loose in dir when its archive was written: the files
\* of before the run and the copies of the run
LooseAtCall(dir) ==
    LooseNames(dest0, dir)
    \cup {events[i].name : i \in {j \in 1..Len(events) :
                                     /\ events[j].op = "copy"
                                     /\ events[j].ok
                                     /\ events[j].dir = dir}}

\* C29: archive_photos / archive_videos creates the archive afresh: an entry
\* of an earlier photos.zip / videos.zip of the directory whose file is not
\* loose in the directory at the call is absent from the archive the call
\* leaves, which holds loose files of the call only
C29_ArchiveCreatedAfresh ==
    \A d \in ArchivedDirs :
        \A z \in dest.zipped : z.dir = d => z.name \in LooseAtCall(d)

\* a directory that held an archive before the run was archived again: the
\* entry of the earlier archive is gone and the new archive has entries
C29_Witness ==
    \E d \in ArchivedDirs :
        /\ \E z \in dest0.zipped : z.dir = d /\ z.name \notin LooseAtCall(d) /\ z \notin dest.zipped
        /\ \E z \in dest.zipped : z.dir = d

(***************************************************************************)
(* C28: one leaf directory per file, one directory per key.                *)
(***************************************************************************)
\* the copies the run has made: the places of the log where copy2 returned
Copies == {i \in 1..Len(events) : events[i].op = "copy" /\ events[i].ok}

\* the copies of the file of the given name
CopiesOf(name) == {i \in Copies : events[i].name = name}

\* the buckets the dispatch saves
SavedBuckets == {i \in 1..Len(buckets) : Dispatch(buckets[i].key, keep_unknown).save}

\* C28: with the program's reader and bucketing, a file read is copied into
\* at most one leaf directory, and into exactly one by the end of a
\* successful run that keeps the unknown; two distinct bucket keys never map
\* to the same destination directory; no copy of a run lands on the copy of
\* another file of the same run
C28_OneLeafPerFile ==
    ~patched =>
        /\ \A r \in 1..Len(records) : Cardinality(CopiesOf(records[r].path)) <= 1
        /\ (pc = "done" /\ keep_unknown) =>
              \A r \in 1..Len(records) : Cardinality(CopiesOf(records[r].path)) = 1
        /\ \A i, j \in SavedBuckets :
              i /= j => Dispatch(buckets[i].key, keep_unknown).dir
                           /= Dispatch(buckets[j].key, keep_unknown).dir
        /\ \A i, j \in Copies :
              (events[i].dir = events[j].dir /\ events[i].name = events[j].name) => i = j

\* a successful run that kept the unknown and saved two files of the same
\* year into the directories of two months
C28_Witness ==
    /\ ~patched
    /\ pc = "done"
    /\ keep_unknown
    /\ Len(records) = 2
    /\ Cardinality(SavedBuckets) = 2
    /\ \A i \in SavedBuckets : buckets[i].key /= UNKNOWN_BUCKET_KEY
    /\ \A i, j \in Copies : events[i].dir[1] = events[j].dir[1]
    /\ Cardinality({events[i].dir : i \in Copies}) = 2

(***************************************************************************)
(* C26: the two listings of archive_* beside another process.              *)
(***************************************************************************)
\* the directories the second loop of archive_* has worked on
UnlinkedDirs == {events[i].dir : i \in {j \in 1..Len(events) : events[j].op = "unlink"}}

\* the names the other process has created in dir
CreatedIn(dir) == {events[i].name : i \in {j \in Created : events[j].dir = dir}}

\* the files of dir the second loop has removed that the archive of dir
\* does not hold
RemovedUnarchived(dir) ==
    {n \in (LooseAtCall(dir) \cup CreatedIn(dir)) \ LooseNames(dest, dir) :
        [dir |-> dir, name |-> n] \notin dest.zipped}

\* the other process created name in dir after the first loop of archive_*
\* had written the archive and before the second loop ended
CreatedBetweenTheListings(dir, name) ==
    \E z, c, u \in 1..Len(events) :
        /\ z < c /\ c < u
        /\ events[z].op = "zip" /\ events[z].ok /\ events[z].dir = dir
        /\ events[c].op = "create" /\ events[c].dir = dir /\ events[c].name = name
        /\ events[u].op = "unlink" /\ events[u].dir = dir

\* C26: archive_* lists the destination directory twice, once to write the
\* archive and once to delete; beside another process that creates
\* allow-listed files in the directory, the delete pass removes files the
\* archive does not contain, and these are exactly files the other process
\* created between the two listings
C26_DeletePassRemovesUnarchived ==
    \A d \in UnlinkedDirs :
        \A n \in RemovedUnarchived(d) : CreatedBetweenTheListings(d, n)

\* the delete pass has removed a file of the other process that is in no
\* archive, in a run that went on to its end
C26_Witness ==
    /\ pc = "done"
    /\ \E d \in UnlinkedDirs :
          \E n \in CreatedIn(d) :
             /\ n \in RemovedUnarchived(d)
             /\ n \notin LooseNames(dest, d)

(***************************************************************************)
(* C27: the source is left as it was.                                      *)
(***************************************************************************)
\* the files of the source directory
SourceFiles == {e \in srcEntries : e.type = "file"}

\* the files of a source directory that is a leaf of the destination are
\* there as they were before the run
AliasedSourceIntact ==
    IsSome(srcAt) =>
        \A e \in SourceFiles :
            [dir |-> Val(srcAt), name |-> e.name, from |-> "source"] \in dest.files

\* C27: a run never deletes, renames or modifies a file of the source
\* directory, whether it succeeds or fails, also when the source directory
\* is destination/unknown or destination/year=Y/month=MM: no step changes
\* the entries of the source, and the files of a source that is a leaf of
\* the destination stay in that leaf, unwritten
C27_SourceUntouched ==
    /\ []AliasedSourceIntact
    /\ [][srcEntries' = srcEntries /\ srcAt' = srcAt]_vars

\* an archiving run whose source is a leaf of the destination has archived
\* the bucket of another leaf and then failed on the copy into the source
C27_Witness ==
    /\ IsSome(srcAt)
    /\ to_archive
    /\ pc = "failed"
    /\ error.what = "copy"
    /\ error.dir = Val(srcAt)
    /\ \E i \in 1..Len(events) : events[i].op = "unlink" /\ events[i].ok

=============================================================================
